---------------------------- MODULE Spec2Model ----------------------------
(***************************************************************************)
(* Blood supply chain optimisation model (modelo_normalizacion_corregida)  *)
(* as a state machine: the script declares the index sets and parameter    *)
(* tables, fixes the normalisation references, builds the Pyomo model      *)
(* (variables, then the eight constraint families, in source order),       *)
(* attaches the combined objective, calls the solver once and reports.     *)
(*                                                                         *)
(* Numbers.  TLC has integers only, so every real quantity is held as an   *)
(* integer count of a fixed unit:                                          *)
(*   variable values      1/Den of a blood unit                            *)
(*   distances            1/4 km           (KM units per km)               *)
(*   transport emission   1/200000 kg/km   (EX factors)                    *)
(*   emissions            1/800000 kg      (KG units per kg)               *)
(*   money                1 IDR for the cost tables, 1/16 IDR (IDR16) for  *)
(*                        the profit expression                            *)
(* A constraint with a decimal multiplier is kept with both sides          *)
(* multiplied by the multiplier's denominator.                             *)
(***************************************************************************)
EXTENDS Integers, Sequences, FiniteSets, TLC

(* ------------------------------ bounds --------------------------------- *)
\* Sizes of the index sets (the source has 3, 3, 2, 4, 2, 2, 4 and 45).
NI == 1
NJ == 1
NR == 2
NH == 1
NK == 1
NU == 1
NP == 1
NT == 2
\* The shelf life is 25 of 45 periods in the source; with the bounded horizon
\* it is drawn from 1..MaxALPHA so that periods on both sides of it exist.
MaxALPHA == 2
\* Variable values are multiples of 1/Den.
Den == 2

(* ------------------------------ units ---------------------------------- *)
KM == 4
KG == 800000
IDR16 == 16
MILLON == 1000000

(* ------------------------------- state --------------------------------- *)
VARIABLES
    pc,             \* position of the script
    ALPHA,          \* shelf life, in periods
    refs,           \* Z_Pro_ref, T_LS_ref, T_E_ref once configured
    registro,       \* the model's variables: handle |-> domain
    restricciones,  \* m.restricciones, the ConstraintList, in order of add
    objetivo,       \* modelo_final.objetivo once attached
    llamadas,       \* number of solver.solve calls made
    terminacion,    \* solucion_final.solver.termination_condition
    valores,        \* the value the solver loaded into each variable
    informe,        \* the figures the report computes and prints
    demanda         \* the demand per (t, p, node) the tables DM_h and DM_k hold

vars == <<pc, ALPHA, refs, registro, restricciones, objetivo, llamadas,
          terminacion, valores, informe, demanda>>

(* ---------------------------- index sets ------------------------------- *)
I == 1..NI
J == 1..NJ
R == 1..NR
H == 1..NH
K == 1..NK
U == 1..NU
P == 1..NP
T == 1..NT

(* --------------------------- helper functions -------------------------- *)
\* int((a + b) / 2): int() truncates toward zero.
central_int(a, b) ==
    IF a + b >= 0 THEN (a + b) \div 2 ELSE -((-(a + b)) \div 2)

\* round((a + b) / 2, ndigits).  a and b are given in a unit fine enough that
\* the midpoint of every range used is a whole number of units and the
\* rounding to ndigits decimals leaves it unchanged; a midpoint that falls
\* between two units rounds half to even, as round() does.
central_float(a, b) ==
    LET s == a + b
        q == s \div 2
    IN  IF s % 2 = 0 THEN q ELSE IF q % 2 = 0 THEN q ELSE q + 1

(* ----------------------------- parameters ------------------------------ *)
DEMAND_H_MIN == 0
DEMAND_H_MAX == 250
DEMAND_K_MIN == 0
DEMAND_K_MAX == 250
PROD_MIN == 300
PROD_MAX == 450
SC_r_val == 10000
SC_h_val == 2000
SC_k_val == 2000
FC_BM == 500000
FC_LBDC == 750000
PRICE_H_MIN == 288000
PRICE_H_MAX == 292000
PRICE_K_MIN == 358000
PRICE_K_MAX == 362000
OC_MIN == 180000
OC_MAX == 200000
PC_MIN == 50000
PC_MAX == 100000
IC_MIN == 130
IC_MAX == 150
XC_MIN == 10
XC_MAX == 50
WC_MIN == 5000
WC_MAX == 7000
\* 0.017 and 0.068 kg, 0.0017 and 0.0068 kg, in 1/800000 kg
EP_MIN == 13600
EP_MAX == 54400
EI_MIN == 1360
EI_MAX == 5440
\* 0.00017 and 0.00068 kg/km, in 1/200000 kg/km
EX_MIN == 34
EX_MAX == 136

\* Distances, in quarter kilometres.
d_ir == [x \in I \X R |-> central_float(7 * KM, 20 * KM)]
d_jr == [x \in J \X R |-> central_float(3 * KM, 20 * KM)]
d_rh == [x \in R \X H |-> central_float(KM \div 2, 30 * KM)]
d_rk == [x \in R \X K |-> central_float(KM \div 2, 30 * KM)]
d_jh == [x \in J \X H |-> central_float(1 * KM, 25 * KM)]
d_jk == [x \in J \X K |-> central_float(1 * KM, 25 * KM)]
d_rr == [x \in R \X R |-> IF x[1] # x[2] THEN 18 * KM ELSE 0]
d_ru == [x \in R \X U |-> central_float((3 * KM) \div 2, 32 * KM)]
d_hu == [x \in H \X U |-> central_float((3 * KM) \div 2, 32 * KM)]
d_ku == [x \in K \X U |-> central_float((3 * KM) \div 2, 32 * KM)]

\* Emission factors.
EP == [x \in T \X P \X R |-> central_float(EP_MIN, EP_MAX)]
EI_r == [x \in T \X P \X R |-> central_float(EI_MIN, EI_MAX)]
EI_h == [x \in T \X P \X H |-> central_float(EI_MIN, EI_MAX)]
EI_k == [x \in T \X P \X K |-> central_float(EI_MIN, EI_MAX)]
EX_ir == [x \in T \X P \X I \X R |-> central_float(EX_MIN, EX_MAX)]
EX_jr == [x \in T \X P \X J \X R |-> central_float(EX_MIN, EX_MAX)]
EX_jh == [x \in T \X P \X J \X H |-> central_float(EX_MIN, EX_MAX)]
EX_jk == [x \in T \X P \X J \X K |-> central_float(EX_MIN, EX_MAX)]
EX_rh == [x \in T \X P \X R \X H |-> central_float(EX_MIN, EX_MAX)]
EX_rk == [x \in T \X P \X R \X K |-> central_float(EX_MIN, EX_MAX)]
EX_rr == [x \in {y \in T \X P \X R \X R : y[3] # y[4]} |->
             central_float(EX_MIN, EX_MAX)]

\* Carbon cap per period (1000 kg) and carbon price (IDR per kg).
CAP == [t \in T |-> 1000 * KG]
EC == 250000

\* Weights: RHO = 0.8 in tenths; W1, W2, W3 = 0.5, 0.3, 0.2 in tenths.
RHO == 8
W1 == 5
W2 == 3
W3 == 2
DECIMOS == 10

\* Demand and production capacity.
DEMAND_ADJUSTED == 13
DM_h == [x \in T \X P \X H |-> demanda.h]
DM_k == [x \in T \X P \X K |-> demanda.k]
\* Mutant: the production capacity is the low end of its range.
PA_minimo == [x \in T \X P \X R |-> PROD_MIN]

PA == [x \in T \X P \X R |-> central_int(PROD_MIN, PROD_MAX)]

\* Storage capacities.
SC_r == [x \in P \X R |-> SC_r_val]
SC_h == [x \in P \X H |-> SC_h_val]
SC_k == [x \in P \X K |-> SC_k_val]

\* Prices and costs (IDR).
SP_rh == [x \in T \X P \X R \X H |-> central_int(PRICE_H_MIN, PRICE_H_MAX)]
SP_rk == [x \in T \X P \X R \X K |-> central_int(PRICE_K_MIN, PRICE_K_MAX)]
OC == [x \in T \X P \X R |-> central_int(OC_MIN, OC_MAX)]
PC_ir == [x \in T \X P \X I \X R |-> central_int(PC_MIN, PC_MAX)]
PC_jr == [x \in T \X P \X J \X R |-> central_int(PC_MIN, PC_MAX)]
IC_r == [x \in T \X P \X R |-> central_int(IC_MIN, IC_MAX)]
IC_h == [x \in T \X P \X H |-> central_int(IC_MIN, IC_MAX)]
IC_k == [x \in T \X P \X K |-> central_int(IC_MIN, IC_MAX)]
WC_r == [x \in T \X P \X R |-> central_int(WC_MIN, WC_MAX)]
WC_h == [x \in T \X P \X H |-> central_int(WC_MIN, WC_MAX)]
WC_k == [x \in T \X P \X K |-> central_int(WC_MIN, WC_MAX)]
XC_ir == [x \in T \X P \X I \X R |-> central_int(XC_MIN, XC_MAX)]
XC_jr == [x \in T \X P \X J \X R |-> central_int(XC_MIN, XC_MAX)]
XC_jh == [x \in T \X P \X J \X H |-> central_int(XC_MIN, XC_MAX)]
XC_jk == [x \in T \X P \X J \X K |-> central_int(XC_MIN, XC_MAX)]
XC_rh == [x \in T \X P \X R \X H |-> central_int(XC_MIN, XC_MAX)]
XC_rk == [x \in T \X P \X R \X K |-> central_int(XC_MIN, XC_MAX)]
XC_rr == [x \in {y \in T \X P \X R \X R : y[3] # y[4]} |->
             central_int(XC_MIN, XC_MAX)]
XC_ru == [x \in T \X P \X R \X U |-> central_int(XC_MIN, XC_MAX)]
XC_hu == [x \in T \X P \X H \X U |-> central_int(XC_MIN, XC_MAX)]
XC_ku == [x \in T \X P \X K \X U |-> central_int(XC_MIN, XC_MAX)]

\* Processing capacities.
CAP_BM_MIN == 50
CAP_BM_MAX == 150
CAP_LBDC_MIN == 100
CAP_LBDC_MAX == 200
CAP_BM == [x \in T \X P \X I |-> central_int(CAP_BM_MIN, CAP_BM_MAX)]
CAP_LBDC == [x \in T \X P \X J |-> central_int(CAP_LBDC_MIN, CAP_LBDC_MAX)]

\* Service multipliers 1.1 and 1.6, in tenths.
MULT_H == 11
MULT_K == 16


(* -------------------------- linear expressions ------------------------- *)
\* A Pyomo linear expression: a constant k plus, for every variable of its
\* support, a coefficient c[v].

Const(n) == [k |-> n, c |-> [v \in {} |-> 0]]

Term(a, v) == [k |-> 0, c |-> [x \in {v} |-> a]]

Coef(e, v) == IF v \in DOMAIN e.c THEN e.c[v] ELSE 0

Plus(a, b) ==
    [k |-> a.k + b.k,
     c |-> [v \in (DOMAIN a.c) \cup (DOMAIN b.c) |-> Coef(a, v) + Coef(b, v)]]

Scale(n, a) == [k |-> n * a.k, c |-> [v \in DOMAIN a.c |-> n * a.c[v]]]

Minus(a, b) == Plus(a, Scale(-1, b))

\* sum(f[x] for x in S), f the function x |-> f[x] on S
RECURSIVE Sum(_)
Sum(f) ==
    IF DOMAIN f = {} THEN Const(0)
    ELSE LET x == CHOOSE y \in DOMAIN f : TRUE
         IN  Plus(f[x], Sum([y \in (DOMAIN f) \ {x} |-> f[y]]))

\* sum(f[x] for x in S), for numbers
RECURSIVE SumN(_)
SumN(f) ==
    IF DOMAIN f = {} THEN 0
    ELSE LET x == CHOOSE y \in DOMAIN f : TRUE
         IN  f[x] + SumN([y \in (DOMAIN f) \ {x} |-> f[y]])

\* A relation lhs rel rhs added to a ConstraintList.
Rel(l, op, r) == [lhs |-> l, rel |-> op, rhs |-> r]

(* --------------------------- variable handles -------------------------- *)
\* m.NAME[index]: the handle of a decision variable is its component name
\* and its index tuple.
XD_ir(t, p, i, r) == <<"XD_ir", <<t, p, i, r>>>>
XD_jr(t, p, j, r) == <<"XD_jr", <<t, p, j, r>>>>
XD_jh(t, p, j, h) == <<"XD_jh", <<t, p, j, h>>>>
XD_jk(t, p, j, k) == <<"XD_jk", <<t, p, j, k>>>>
XD_rh(t, p, r, h) == <<"XD_rh", <<t, p, r, h>>>>
XD_rk(t, p, r, k) == <<"XD_rk", <<t, p, r, k>>>>
XD_rr(t, p, r1, r2) == <<"XD_rr", <<t, p, r1, r2>>>>
XD_ru(t, p, r, u) == <<"XD_ru", <<t, p, r, u>>>>
XD_hu(t, p, h, u) == <<"XD_hu", <<t, p, h, u>>>>
XD_ku(t, p, k, u) == <<"XD_ku", <<t, p, k, u>>>>
PR(t, p, r) == <<"PR", <<t, p, r>>>>
IR(t, p, r) == <<"IR", <<t, p, r>>>>
IH(t, p, h) == <<"IH", <<t, p, h>>>>
IK(t, p, k) == <<"IK", <<t, p, k>>>>
WO_r(t, p, r) == <<"WO_r", <<t, p, r>>>>
WO_h(t, p, h) == <<"WO_h", <<t, p, h>>>>
WO_k(t, p, k) == <<"WO_k", <<t, p, k>>>>
y_i(t, i) == <<"y_i", <<t, i>>>>
y_j(t, j) == <<"y_j", <<t, j>>>>
y_r(t, r) == <<"y_r", <<t, r>>>>

\* Var(index sets, domain=dom): one variable per index tuple.
\* Mutant: the within= argument is dropped and the variables are free reals.
Var_sin_dominio(name, idx, dom) == [v \in {<<name, x>> : x \in idx} |-> "Reals"]

Var(name, idx, dom) == [v \in {<<name, x>> : x \in idx} |-> dom]

\* The declarations of crear_modelo_base, in source order.
Declaraciones ==
    Var("XD_ir", T \X P \X I \X R, "NonNegativeReals") @@
    Var("XD_jr", T \X P \X J \X R, "NonNegativeReals") @@
    Var("XD_jh", T \X P \X J \X H, "NonNegativeReals") @@
    Var("XD_jk", T \X P \X J \X K, "NonNegativeReals") @@
    Var("XD_rh", T \X P \X R \X H, "NonNegativeReals") @@
    Var("XD_rk", T \X P \X R \X K, "NonNegativeReals") @@
    Var("XD_rr", T \X P \X R \X R, "NonNegativeReals") @@
    Var("XD_ru", T \X P \X R \X U, "NonNegativeReals") @@
    Var("XD_hu", T \X P \X H \X U, "NonNegativeReals") @@
    Var("XD_ku", T \X P \X K \X U, "NonNegativeReals") @@
    Var("PR", T \X P \X R, "NonNegativeReals") @@
    Var("IR", T \X P \X R, "NonNegativeReals") @@
    Var("IH", T \X P \X H, "NonNegativeReals") @@
    Var("IK", T \X P \X K, "NonNegativeReals") @@
    Var("WO_r", T \X P \X R, "NonNegativeReals") @@
    Var("WO_h", T \X P \X H, "NonNegativeReals") @@
    Var("WO_k", T \X P \X K, "NonNegativeReals") @@
    Var("y_i", T \X I, "Binary") @@
    Var("y_j", T \X J, "Binary") @@
    Var("y_r", T \X R, "Binary")

\* for x in L: <body>: the relations the passes of a loop add, in list
\* order; f[n] is the sequence of relations the n-th pass adds.
RECURSIVE Loop(_)
Loop(f) ==
    IF Len(f) = 0 THEN <<>>
    ELSE Loop(SubSeq(f, 1, Len(f) - 1)) \o f[Len(f)]

(* ------------------- restriccion 1: balance, regional banks ------------ *)
\* Mutant: the stock of the previous period is not carried in.
IR_prev_sin_arrastre(t, p, r) == Const(0)

IR_prev(t, p, r) == IF t = 1 THEN Const(0) ELSE Term(1, IR(t - 1, p, r))

\* Mutant: the bank receives nothing from the mobile units.
EntradasRBB_sin_moviles(t, p, r) ==
    Plus(Plus(Term(1, PR(t, p, r)),
              Sum([j \in J |-> Term(1, XD_jr(t, p, j, r))])),
         Sum([r2 \in R \ {r} |-> Term(1, XD_rr(t, p, r2, r))]))

EntradasRBB(t, p, r) ==
    Plus(Plus(Plus(Term(1, PR(t, p, r)),
                   Sum([i \in I |-> Term(1, XD_ir(t, p, i, r))])),
              Sum([j \in J |-> Term(1, XD_jr(t, p, j, r))])),
         Sum([r2 \in R \ {r} |-> Term(1, XD_rr(t, p, r2, r))]))

SalidasRBB(t, p, r) ==
    Plus(Plus(Plus(Plus(Sum([h \in H |-> Term(1, XD_rh(t, p, r, h))]),
                        Sum([k \in K |-> Term(1, XD_rk(t, p, r, k))])),
                   Sum([r2 \in R \ {r} |-> Term(1, XD_rr(t, p, r, r2))])),
              Sum([u \in U |-> Term(1, XD_ru(t, p, r, u))])),
         Term(1, WO_r(t, p, r)))

BalanceRBB ==
    Loop([t \in T |-> Loop([p \in P |-> Loop([r \in R |->
        <<Rel(Plus(IR_prev(t, p, r), EntradasRBB(t, p, r)), "==",
              Plus(Term(1, IR(t, p, r)), SalidasRBB(t, p, r)))>>])])])

(* ------------------- restriccion 2: balance, hospitals ----------------- *)
\* Mutant: the stock of period t - 1 is read in the first period too.
IH_prev_sin_guarda(t, p, h) == Term(1, IH(t - 1, p, h))

IH_prev(t, p, h) == IF t = 1 THEN Const(0) ELSE Term(1, IH(t - 1, p, h))

\* Mutant: the inflow from the regional banks is left out.
EntradasH_solo_locales(t, p, h) ==
    Sum([j \in J |-> Term(1, XD_jh(t, p, j, h))])

EntradasH(t, p, h) ==
    Plus(Sum([j \in J |-> Term(1, XD_jh(t, p, j, h))]),
         Sum([r \in R |-> Term(1, XD_rh(t, p, r, h))]))

SalidasH(t, p, h) ==
    Plus(Plus(Const(DM_h[<<t, p, h>>]),
              Sum([u \in U |-> Term(1, XD_hu(t, p, h, u))])),
         Term(1, WO_h(t, p, h)))

BalanceH ==
    Loop([t \in T |-> Loop([p \in P |-> Loop([h \in H |->
        <<Rel(Plus(IH_prev(t, p, h), EntradasH(t, p, h)), "==",
              Plus(Term(1, IH(t, p, h)), SalidasH(t, p, h)))>>])])])

(* ------------------- restriccion 3: balance, clinics ------------------- *)
IK_prev(t, p, k) == IF t = 1 THEN Const(0) ELSE Term(1, IK(t - 1, p, k))

EntradasK(t, p, k) ==
    Plus(Sum([j \in J |-> Term(1, XD_jk(t, p, j, k))]),
         Sum([r \in R |-> Term(1, XD_rk(t, p, r, k))]))

SalidasK(t, p, k) ==
    Plus(Plus(Const(DM_k[<<t, p, k>>]),
              Sum([u \in U |-> Term(1, XD_ku(t, p, k, u))])),
         Term(1, WO_k(t, p, k)))

BalanceK ==
    Loop([t \in T |-> Loop([p \in P |-> Loop([k \in K |->
        <<Rel(Plus(IK_prev(t, p, k), EntradasK(t, p, k)), "==",
              Plus(Term(1, IK(t, p, k)), SalidasK(t, p, k)))>>])])])

(* ------------------- restriccion 4: capacities ------------------------- *)
CapacidadRBB(t, p, r) ==
    <<Rel(Term(1, PR(t, p, r)), "<=", Const(PA[<<t, p, r>>])),
      Rel(Term(1, IR(t, p, r)), "<=", Const(SC_r[<<p, r>>]))>>

CapacidadBM(t, p, i) ==
    <<Rel(Sum([r \in R |-> Term(1, XD_ir(t, p, i, r))]), "<=",
          Const(CAP_BM[<<t, p, i>>]))>>

\* Mutant: the dispatch to clinics is not counted in the center's total.
total_lbdc_sin_clinicas(t, p, j) ==
    Plus(Sum([r \in R |-> Term(1, XD_jr(t, p, j, r))]),
         Sum([h \in H |-> Term(1, XD_jh(t, p, j, h))]))

total_lbdc(t, p, j) ==
    Plus(Plus(Sum([r \in R |-> Term(1, XD_jr(t, p, j, r))]),
              Sum([h \in H |-> Term(1, XD_jh(t, p, j, h))])),
         Sum([k \in K |-> Term(1, XD_jk(t, p, j, k))]))

CapacidadLBDC(t, p, j) ==
    <<Rel(total_lbdc(t, p, j), "<=", Const(CAP_LBDC[<<t, p, j>>]))>>

CapacidadH(t, p, h) ==
    <<Rel(Term(1, IH(t, p, h)), "<=", Const(SC_h[<<p, h>>]))>>

CapacidadK(t, p, k) ==
    <<Rel(Term(1, IK(t, p, k)), "<=", Const(SC_k[<<p, k>>]))>>

Capacidades ==
    Loop([t \in T |-> Loop([p \in P |->
        Loop([r \in R |-> CapacidadRBB(t, p, r)]) \o
        Loop([i \in I |-> CapacidadBM(t, p, i)]) \o
        Loop([j \in J |-> CapacidadLBDC(t, p, j)]) \o
        Loop([h \in H |-> CapacidadH(t, p, h)]) \o
        Loop([k \in K |-> CapacidadK(t, p, k)])])])

(* ------------------- restriccion 5: carbon cap ------------------------- *)
emision_prod_t(t) ==
    Sum([x \in P \X R |-> Term(EP[<<t, x[1], x[2]>>], PR(t, x[1], x[2]))])

\* Mutant: the inventory emissions of the clinics are left out.
emision_inv_t_sin_clinicas(t) ==
    Plus(
        Sum([x \in P \X R |-> Term(EI_r[<<t, x[1], x[2]>>], IR(t, x[1], x[2]))]),
        Sum([x \in P \X H |-> Term(EI_h[<<t, x[1], x[2]>>], IH(t, x[1], x[2]))]))

emision_inv_t(t) ==
    Plus(Plus(
        Sum([x \in P \X R |-> Term(EI_r[<<t, x[1], x[2]>>], IR(t, x[1], x[2]))]),
        Sum([x \in P \X H |-> Term(EI_h[<<t, x[1], x[2]>>], IH(t, x[1], x[2]))])),
        Sum([x \in P \X K |-> Term(EI_k[<<t, x[1], x[2]>>], IK(t, x[1], x[2]))]))

emision_transp_t(t) ==
    Plus(Plus(Plus(Plus(Plus(Plus(
        Sum([x \in P \X I \X R |->
            Term(EX_ir[<<t, x[1], x[2], x[3]>>] * d_ir[<<x[2], x[3]>>],
                 XD_ir(t, x[1], x[2], x[3]))]),
        Sum([x \in P \X J \X R |->
            Term(EX_jr[<<t, x[1], x[2], x[3]>>] * d_jr[<<x[2], x[3]>>],
                 XD_jr(t, x[1], x[2], x[3]))])),
        Sum([x \in P \X J \X H |->
            Term(EX_jh[<<t, x[1], x[2], x[3]>>] * d_jh[<<x[2], x[3]>>],
                 XD_jh(t, x[1], x[2], x[3]))])),
        Sum([x \in P \X J \X K |->
            Term(EX_jk[<<t, x[1], x[2], x[3]>>] * d_jk[<<x[2], x[3]>>],
                 XD_jk(t, x[1], x[2], x[3]))])),
        Sum([x \in P \X R \X H |->
            Term(EX_rh[<<t, x[1], x[2], x[3]>>] * d_rh[<<x[2], x[3]>>],
                 XD_rh(t, x[1], x[2], x[3]))])),
        Sum([x \in P \X R \X K |->
            Term(EX_rk[<<t, x[1], x[2], x[3]>>] * d_rk[<<x[2], x[3]>>],
                 XD_rk(t, x[1], x[2], x[3]))])),
        Sum([x \in {y \in P \X R \X R : y[2] # y[3]} |->
            Term(EX_rr[<<t, x[1], x[2], x[3]>>] * d_rr[<<x[2], x[3]>>],
                 XD_rr(t, x[1], x[2], x[3]))]))

CarbonCap ==
    Loop([t \in T |->
        <<Rel(Plus(Plus(emision_prod_t(t), emision_inv_t(t)),
                   emision_transp_t(t)), "<=", Const(CAP[t]))>>])

(* ------------------- restriccion 6: supply limits ---------------------- *)
\* Mutant: what the regional banks deliver is not counted in the supply.
suministro_h_tp_solo_locales(t, p, h) ==
    Sum([j \in J |-> Term(1, XD_jh(t, p, j, h))])

suministro_h_tp(t, p, h) ==
    Plus(Sum([j \in J |-> Term(1, XD_jh(t, p, j, h))]),
         Sum([r \in R |-> Term(1, XD_rh(t, p, r, h))]))

suministro_k_tp(t, p, k) ==
    Plus(Sum([j \in J |-> Term(1, XD_jk(t, p, j, k))]),
         Sum([r \in R |-> Term(1, XD_rk(t, p, r, k))]))

\* suministro <= 1.1 * DM_h and suministro <= 1.6 * DM_k, both sides in tenths
\* Mutant: the hospitals get the clinics' multiplier.
LimiteSuministroH_multiplicador_k(t, p, h) ==
    <<Rel(Scale(DECIMOS, suministro_h_tp(t, p, h)), "<=",
          Const(MULT_K * DM_h[<<t, p, h>>]))>>

LimiteSuministroH(t, p, h) ==
    <<Rel(Scale(DECIMOS, suministro_h_tp(t, p, h)), "<=",
          Const(MULT_H * DM_h[<<t, p, h>>]))>>

LimiteSuministroK(t, p, k) ==
    <<Rel(Scale(DECIMOS, suministro_k_tp(t, p, k)), "<=",
          Const(MULT_K * DM_k[<<t, p, k>>]))>>

LimitesSuministro ==
    Loop([t \in T |-> Loop([p \in P |->
        Loop([h \in H |-> LimiteSuministroH(t, p, h)]) \o
        Loop([k \in K |-> LimiteSuministroK(t, p, k)])])])

(* ------------------- restriccion 7: shelf life ------------------------- *)
\* Mutant: what a regional bank sends to waste centers counts as discard.
VidaUtil_tp_con_residuos(a, t, p) ==
    Loop([r \in R |->
        <<Rel(Plus(Term(1, WO_r(t, p, r)),
                   Sum([u \in U |-> Term(1, XD_ru(t, p, r, u))])),
              "<=", Term(1, IR(t - a, p, r)))>>]) \o
    Loop([h \in H |->
        <<Rel(Term(1, WO_h(t, p, h)), "<=", Term(1, IH(t - a, p, h)))>>]) \o
    Loop([k \in K |->
        <<Rel(Term(1, WO_k(t, p, k)), "<=", Term(1, IK(t - a, p, k)))>>])

VidaUtil_tp(a, t, p) ==
    Loop([r \in R |->
        <<Rel(Term(1, WO_r(t, p, r)), "<=", Term(1, IR(t - a, p, r)))>>]) \o
    Loop([h \in H |->
        <<Rel(Term(1, WO_h(t, p, h)), "<=", Term(1, IH(t - a, p, h)))>>]) \o
    Loop([k \in K |->
        <<Rel(Term(1, WO_k(t, p, k)), "<=", Term(1, IK(t - a, p, k)))>>])

\* Mutant: the relations start one period early.
VidaUtil_desde_alpha(a) ==
    Loop([t \in T |->
        IF t >= a THEN Loop([p \in P |-> VidaUtil_tp(a, t, p)]) ELSE <<>>])

\* a is the shelf life ALPHA
VidaUtil(a) ==
    Loop([t \in T |->
        IF t > a THEN Loop([p \in P |-> VidaUtil_tp(a, t, p)]) ELSE <<>>])

(* ------------------- restriccion 8: minimum activation ----------------- *)
ActivacionBM(i) ==
    <<Rel(Sum([t \in T |-> Term(1, y_i(t, i))]), ">=", Const(1))>>

ActivacionLBDC(j) ==
    <<Rel(Sum([t \in T |-> Term(1, y_j(t, j))]), ">=", Const(1))>>

\* Mutant: the regional banks need no active period.
ActivacionRBB_sin_minimo(r) ==
    <<Rel(Sum([t \in T |-> Term(1, y_r(t, r))]), ">=", Const(0))>>

ActivacionRBB(r) ==
    <<Rel(Sum([t \in T |-> Term(1, y_r(t, r))]), ">=", Const(1))>>

ActivacionMinima ==
    Loop([i \in I |-> ActivacionBM(i)]) \o
    Loop([j \in J |-> ActivacionLBDC(j)]) \o
    Loop([r \in R |-> ActivacionRBB(r)])

(* ------------------- normalisation references -------------------------- *)
\* A decimal constant (hi * 10^6 + lo) / d; the profit reference does not fit
\* in one machine integer.
\* 4,488,461,514.0 IDR; 1.3185; 203.94 kg
Z_Pro_ref == [hi |-> 4488, lo |-> 461514, d |-> 1]
T_LS_ref == [hi |-> 0, lo |-> 13185, d |-> 10000]
T_E_ref == [hi |-> 0, lo |-> 20394, d |-> 100]

(* ------------------- objetivo_combinado_corregido ---------------------- *)
revenue ==
    Plus(Sum([x \in T \X P \X R \X H |->
                 Term(SP_rh[x], XD_rh(x[1], x[2], x[3], x[4]))]),
         Sum([x \in T \X P \X R \X K |->
                 Term(SP_rk[x], XD_rk(x[1], x[2], x[3], x[4]))]))

\* Mutant: the active periods of the regional banks are charged as well.
TC1_con_regionales ==
    Plus(Plus(Sum([x \in T \X I |-> Term(FC_BM, y_i(x[1], x[2]))]),
              Sum([x \in T \X J |-> Term(FC_LBDC, y_j(x[1], x[2]))])),
         Sum([x \in T \X R |-> Term(FC_LBDC, y_r(x[1], x[2]))]))

TC1 ==
    Plus(Sum([x \in T \X I |-> Term(FC_BM, y_i(x[1], x[2]))]),
         Sum([x \in T \X J |-> Term(FC_LBDC, y_j(x[1], x[2]))]))

TC2 ==
    Plus(Sum([x \in T \X P \X I \X R |->
                 Term(PC_ir[x], XD_ir(x[1], x[2], x[3], x[4]))]),
         Sum([x \in T \X P \X J \X R |->
                 Term(PC_jr[x], XD_jr(x[1], x[2], x[3], x[4]))]))

TC3 == Sum([x \in T \X P \X R |-> Term(OC[x], PR(x[1], x[2], x[3]))])

TC4 ==
    Plus(Plus(Sum([x \in T \X P \X R |-> Term(IC_r[x], IR(x[1], x[2], x[3]))]),
              Sum([x \in T \X P \X H |-> Term(IC_h[x], IH(x[1], x[2], x[3]))])),
         Sum([x \in T \X P \X K |-> Term(IC_k[x], IK(x[1], x[2], x[3]))]))

\* Mutant: the discards of the clinics cost nothing.
TC5_sin_clinicas ==
    Plus(Sum([x \in T \X P \X R |-> Term(WC_r[x], WO_r(x[1], x[2], x[3]))]),
         Sum([x \in T \X P \X H |-> Term(WC_h[x], WO_h(x[1], x[2], x[3]))]))

TC5 ==
    Plus(Plus(Sum([x \in T \X P \X R |-> Term(WC_r[x], WO_r(x[1], x[2], x[3]))]),
              Sum([x \in T \X P \X H |-> Term(WC_h[x], WO_h(x[1], x[2], x[3]))])),
         Sum([x \in T \X P \X K |-> Term(WC_k[x], WO_k(x[1], x[2], x[3]))]))

\* XC * XD * d: with d in quarter km, TC6 is in quarter IDR
TC6 ==
    Plus(Plus(Plus(Plus(Plus(Plus(Plus(Plus(Plus(
        Sum([x \in T \X P \X I \X R |->
            Term(XC_ir[x] * d_ir[<<x[3], x[4]>>], XD_ir(x[1], x[2], x[3], x[4]))]),
        Sum([x \in T \X P \X J \X R |->
            Term(XC_jr[x] * d_jr[<<x[3], x[4]>>], XD_jr(x[1], x[2], x[3], x[4]))])),
        Sum([x \in T \X P \X J \X H |->
            Term(XC_jh[x] * d_jh[<<x[3], x[4]>>], XD_jh(x[1], x[2], x[3], x[4]))])),
        Sum([x \in T \X P \X J \X K |->
            Term(XC_jk[x] * d_jk[<<x[3], x[4]>>], XD_jk(x[1], x[2], x[3], x[4]))])),
        Sum([x \in T \X P \X R \X H |->
            Term(XC_rh[x] * d_rh[<<x[3], x[4]>>], XD_rh(x[1], x[2], x[3], x[4]))])),
        Sum([x \in T \X P \X R \X K |->
            Term(XC_rk[x] * d_rk[<<x[3], x[4]>>], XD_rk(x[1], x[2], x[3], x[4]))])),
        Sum([x \in {y \in T \X P \X R \X R : y[3] # y[4]} |->
            Term(XC_rr[x] * d_rr[<<x[3], x[4]>>], XD_rr(x[1], x[2], x[3], x[4]))])),
        Sum([x \in T \X P \X R \X U |->
            Term(XC_ru[x] * d_ru[<<x[3], x[4]>>], XD_ru(x[1], x[2], x[3], x[4]))])),
        Sum([x \in T \X P \X H \X U |->
            Term(XC_hu[x] * d_hu[<<x[3], x[4]>>], XD_hu(x[1], x[2], x[3], x[4]))])),
        Sum([x \in T \X P \X K \X U |->
            Term(XC_ku[x] * d_ku[<<x[3], x[4]>>], XD_ku(x[1], x[2], x[3], x[4]))]))

\* in 1/800000 kg
emision_total ==
    Plus(Plus(Plus(Plus(Plus(Plus(Plus(Plus(Plus(
        Sum([x \in T \X P \X R |-> Term(EP[x], PR(x[1], x[2], x[3]))]),
        Sum([x \in T \X P \X R |-> Term(EI_r[x], IR(x[1], x[2], x[3]))])),
        Sum([x \in T \X P \X H |-> Term(EI_h[x], IH(x[1], x[2], x[3]))])),
        Sum([x \in T \X P \X K |-> Term(EI_k[x], IK(x[1], x[2], x[3]))])),
        Sum([x \in T \X P \X I \X R |->
            Term(EX_ir[x] * d_ir[<<x[3], x[4]>>], XD_ir(x[1], x[2], x[3], x[4]))])),
        Sum([x \in T \X P \X J \X R |->
            Term(EX_jr[x] * d_jr[<<x[3], x[4]>>], XD_jr(x[1], x[2], x[3], x[4]))])),
        Sum([x \in T \X P \X J \X H |->
            Term(EX_jh[x] * d_jh[<<x[3], x[4]>>], XD_jh(x[1], x[2], x[3], x[4]))])),
        Sum([x \in T \X P \X J \X K |->
            Term(EX_jk[x] * d_jk[<<x[3], x[4]>>], XD_jk(x[1], x[2], x[3], x[4]))])),
        Sum([x \in T \X P \X R \X H |->
            Term(EX_rh[x] * d_rh[<<x[3], x[4]>>], XD_rh(x[1], x[2], x[3], x[4]))])),
        Sum([x \in T \X P \X R \X K |->
            Term(EX_rk[x] * d_rk[<<x[3], x[4]>>], XD_rk(x[1], x[2], x[3], x[4]))]))

\* EC * emision_total, in 1/16 IDR (EC is IDR per kg, the emissions are in
\* 1/KG kg)
TC7 == Scale((EC * IDR16) \div KG, emision_total)

\* revenue - (TC1 + ... + TC7), in 1/16 IDR
beneficio_total ==
    Minus(Scale(IDR16, revenue),
          Plus(Plus(Plus(Plus(Plus(Plus(Scale(IDR16, TC1), Scale(IDR16, TC2)),
                                   Scale(IDR16, TC3)),
                              Scale(IDR16, TC4)),
                         Scale(IDR16, TC5)),
                    Scale(IDR16 \div KM, TC6)),
               TC7))

demanda_total_h == SumN([x \in T \X P \X H |-> DM_h[x]])
demanda_total_k == SumN([x \in T \X P \X K |-> DM_k[x]])

suministro_h ==
    Plus(Sum([x \in T \X P \X J \X H |-> Term(1, XD_jh(x[1], x[2], x[3], x[4]))]),
         Sum([x \in T \X P \X R \X H |-> Term(1, XD_rh(x[1], x[2], x[3], x[4]))]))

suministro_k ==
    Plus(Sum([x \in T \X P \X J \X K |-> Term(1, XD_jk(x[1], x[2], x[3], x[4]))]),
         Sum([x \in T \X P \X R \X K |-> Term(1, XD_rk(x[1], x[2], x[3], x[4]))]))

\* A quotient num / den of a linear expression by a positive number.
Frac(n, d) == [num |-> n, den |-> d]

\* Mutant: the quotient is taken whatever the total demand.
TSH_sin_guarda == Frac(Scale(RHO, suministro_h), DECIMOS * demanda_total_h)

\* RHO * (suministro_h / demanda_total_h) if demanda_total_h > 0 else RHO
TSH ==
    IF demanda_total_h > 0
    THEN Frac(Scale(RHO, suministro_h), DECIMOS * demanda_total_h)
    ELSE Frac(Const(RHO), DECIMOS)

TSK ==
    IF demanda_total_k > 0
    THEN Frac(Scale(DECIMOS - RHO, suministro_k), DECIMOS * demanda_total_k)
    ELSE Frac(Const(DECIMOS - RHO), DECIMOS)

tasa_cumplimiento ==
    Frac(Plus(Scale(TSK.den, TSH.num), Scale(TSH.den, TSK.num)),
         TSH.den * TSK.den)

\* W1 * (beneficio_total / Z_Pro_ref) + W2 * (tasa_cumplimiento / T_LS_ref)
\*   - W3 * (emision_total / T_E_ref):
\* the terms peso/10 * (criterio / ref), a subtracted term with negative peso.
Z_combinado(rf) ==
    <<[peso |-> W1, criterio |-> Frac(beneficio_total, IDR16),
       ref |-> rf.Z_Pro_ref],
      [peso |-> W2, criterio |-> tasa_cumplimiento, ref |-> rf.T_LS_ref],
      [peso |-> -W3, criterio |-> Frac(emision_total, KG), ref |-> rf.T_E_ref]>>

\* Mutant: the objective is attached with the default sense.
Objective_minimizar(rf) == [sense |-> "minimize", expr |-> Z_combinado(rf)]

\* Objective(rule=objetivo_combinado_corregido, sense=maximize)
Objective(rf) == [sense |-> "maximize", expr |-> Z_combinado(rf)]

(* ------------------- the solver ---------------------------------------- *)
\* The value of a linear expression under an assignment, in 1/Den.
Eval(e, val) == e.k * Den + SumN([v \in DOMAIN e.c |-> e.c[v] * val[v]])

Cumple(c, val) ==
    LET l == Eval(c.lhs, val)
        r == Eval(c.rhs, val)
    IN  CASE c.rel = "==" -> l = r
          [] c.rel = "<=" -> l <= r
          [] c.rel = ">=" -> l >= r

EnDominio(dom, x) ==
    CASE dom = "NonNegativeReals" -> x >= 0
      [] dom = "Binary" -> x \in {0, Den}
      [] dom = "Reals" -> TRUE

\* What the solver accepts: every variable in its domain, every relation of
\* the constraint list satisfied.
Factible(reg, cons, val) ==
    /\ \A v \in DOMAIN reg : EnDominio(reg[v], val[v])
    /\ \A n \in 1..Len(cons) : Cumple(cons[n], val)

\* The plan the explored assignments are taken around: the first regional
\* bank produces the demand of the whole horizon in the first period, keeps
\* what later periods need in stock and ships every period's demand straight
\* to the hospitals and clinics; every facility is switched on in the first
\* period only.
DemandaPeriodo(t, p) ==
    SumN([h \in H |-> DM_h[<<t, p, h>>]]) + SumN([k \in K |-> DM_k[<<t, p, k>>]])

Semilla(reg) ==
    [v \in DOMAIN reg |->
        LET x == v[2] IN
        CASE v[1] = "XD_rh" /\ x[3] = 1 -> Den * DM_h[<<x[1], x[2], x[4]>>]
          [] v[1] = "XD_rk" /\ x[3] = 1 -> Den * DM_k[<<x[1], x[2], x[4]>>]
          [] v[1] = "PR" /\ x[3] = 1 /\ x[1] = 1 ->
                Den * SumN([t \in T |-> DemandaPeriodo(t, x[2])])
          [] v[1] = "IR" /\ x[3] = 1 ->
                Den * SumN([t \in {s \in T : s > x[1]} |-> DemandaPeriodo(t, x[2])])
          [] v[1] \in {"y_i", "y_j", "y_r"} /\ x[1] = 1 -> Den
          [] OTHER -> 0]

\* The steps by which a value is moved away from the plan, in 1/Den.
Deltas == {-1, 0, 1, Den, 2 * Den}

\* The variables of the model, listed once each.
RECURSIVE Handles(_)
Handles(S) ==
    IF S = {} THEN <<>>
    ELSE LET v == CHOOSE x \in S : TRUE IN <<v>> \o Handles(S \ {v})

\* The assignments explored: the plan with at most two values moved.
Candidato(base, v1, d1, v2, d2) ==
    [base EXCEPT ![v1] = @ + d1, ![v2] = @ + d2]

\* The plan with a reserve: the first bank produces e more of the first
\* product in the first period and keeps it in stock to the end of the
\* horizon.
ConReserva(base, e) ==
    [v \in DOMAIN base |->
        IF \/ v = PR(1, 1, 1)
           \/ v[1] = "IR" /\ v[2][2] = 1 /\ v[2][3] = 1
        THEN base[v] + e ELSE base[v]]

(* ------------------- the report's arithmetic --------------------------- *)
\* Money totals do not fit in one machine integer: hi * 10^6 + lo, with
\* 0 <= lo < 10^6.
Big(n) == [hi |-> n \div MILLON, lo |-> n % MILLON]

BigPlus(a, b) ==
    LET s == a.lo + b.lo
    IN  [hi |-> a.hi + b.hi + (s \div MILLON), lo |-> s % MILLON]

BigNeg(a) ==
    IF a.lo = 0 THEN [hi |-> -a.hi, lo |-> 0]
    ELSE [hi |-> -a.hi - 1, lo |-> MILLON - a.lo]

\* a * n for a number n of moderate size
BigTimes(a, n) ==
    IF n >= 0
    THEN LET l == a.lo * n
         IN  [hi |-> a.hi * n + (l \div MILLON), lo |-> l % MILLON]
    ELSE LET l == a.lo * (-n)
         IN  BigNeg([hi |-> a.hi * (-n) + (l \div MILLON), lo |-> l % MILLON])

RECURSIVE SumBig(_)
SumBig(f) ==
    IF DOMAIN f = {} THEN Big(0)
    ELSE LET x == CHOOSE y \in DOMAIN f : TRUE
         IN  BigPlus(f[x], SumBig([y \in (DOMAIN f) \ {x} |-> f[y]]))

\* The value of a money expression under an assignment, in 1/Den.
EvalBig(e, val) ==
    BigPlus(Big(e.k * Den),
            SumBig([v \in DOMAIN e.c |-> BigTimes(Big(e.c[v]), val[v])]))

(* ------------------- the report (optimal branch) ----------------------- *)
\* The sums the report evaluates with value(...), term for term.
inf_revenue ==
    Plus(Sum([x \in T \X P \X R \X H |->
                 Term(SP_rh[x], XD_rh(x[1], x[2], x[3], x[4]))]),
         Sum([x \in T \X P \X R \X K |->
                 Term(SP_rk[x], XD_rk(x[1], x[2], x[3], x[4]))]))

inf_TC1 ==
    Plus(Sum([x \in T \X I |-> Term(FC_BM, y_i(x[1], x[2]))]),
         Sum([x \in T \X J |-> Term(FC_LBDC, y_j(x[1], x[2]))]))

inf_TC2 ==
    Plus(Sum([x \in T \X P \X I \X R |->
                 Term(PC_ir[x], XD_ir(x[1], x[2], x[3], x[4]))]),
         Sum([x \in T \X P \X J \X R |->
                 Term(PC_jr[x], XD_jr(x[1], x[2], x[3], x[4]))]))

inf_TC3 == Sum([x \in T \X P \X R |-> Term(OC[x], PR(x[1], x[2], x[3]))])

inf_TC4 ==
    Plus(Plus(Sum([x \in T \X P \X R |-> Term(IC_r[x], IR(x[1], x[2], x[3]))]),
              Sum([x \in T \X P \X H |-> Term(IC_h[x], IH(x[1], x[2], x[3]))])),
         Sum([x \in T \X P \X K |-> Term(IC_k[x], IK(x[1], x[2], x[3]))]))

inf_TC5 ==
    Plus(Plus(Sum([x \in T \X P \X R |-> Term(WC_r[x], WO_r(x[1], x[2], x[3]))]),
              Sum([x \in T \X P \X H |-> Term(WC_h[x], WO_h(x[1], x[2], x[3]))])),
         Sum([x \in T \X P \X K |-> Term(WC_k[x], WO_k(x[1], x[2], x[3]))]))

\* in quarter IDR
inf_TC6 ==
    Plus(Plus(Plus(Plus(Plus(Plus(Plus(Plus(Plus(
        Sum([x \in T \X P \X I \X R |->
            Term(XC_ir[x] * d_ir[<<x[3], x[4]>>], XD_ir(x[1], x[2], x[3], x[4]))]),
        Sum([x \in T \X P \X J \X R |->
            Term(XC_jr[x] * d_jr[<<x[3], x[4]>>], XD_jr(x[1], x[2], x[3], x[4]))])),
        Sum([x \in T \X P \X J \X H |->
            Term(XC_jh[x] * d_jh[<<x[3], x[4]>>], XD_jh(x[1], x[2], x[3], x[4]))])),
        Sum([x \in T \X P \X J \X K |->
            Term(XC_jk[x] * d_jk[<<x[3], x[4]>>], XD_jk(x[1], x[2], x[3], x[4]))])),
        Sum([x \in T \X P \X R \X H |->
            Term(XC_rh[x] * d_rh[<<x[3], x[4]>>], XD_rh(x[1], x[2], x[3], x[4]))])),
        Sum([x \in T \X P \X R \X K |->
            Term(XC_rk[x] * d_rk[<<x[3], x[4]>>], XD_rk(x[1], x[2], x[3], x[4]))])),
        Sum([x \in {y \in T \X P \X R \X R : y[3] # y[4]} |->
            Term(XC_rr[x] * d_rr[<<x[3], x[4]>>], XD_rr(x[1], x[2], x[3], x[4]))])),
        Sum([x \in T \X P \X R \X U |->
            Term(XC_ru[x] * d_ru[<<x[3], x[4]>>], XD_ru(x[1], x[2], x[3], x[4]))])),
        Sum([x \in T \X P \X H \X U |->
            Term(XC_hu[x] * d_hu[<<x[3], x[4]>>], XD_hu(x[1], x[2], x[3], x[4]))])),
        Sum([x \in T \X P \X K \X U |->
            Term(XC_ku[x] * d_ku[<<x[3], x[4]>>], XD_ku(x[1], x[2], x[3], x[4]))]))

\* Mutant: the report leaves the emissions of production out.
inf_emision_produccion_nula == Const(0)

inf_emision_produccion ==
    Sum([x \in T \X P \X R |-> Term(EP[x], PR(x[1], x[2], x[3]))])

inf_emision_inventario ==
    Plus(Plus(Sum([x \in T \X P \X R |-> Term(EI_r[x], IR(x[1], x[2], x[3]))]),
              Sum([x \in T \X P \X H |-> Term(EI_h[x], IH(x[1], x[2], x[3]))])),
         Sum([x \in T \X P \X K |-> Term(EI_k[x], IK(x[1], x[2], x[3]))]))

inf_emision_transporte ==
    Plus(Plus(Plus(Plus(Plus(
        Sum([x \in T \X P \X I \X R |->
            Term(EX_ir[x] * d_ir[<<x[3], x[4]>>], XD_ir(x[1], x[2], x[3], x[4]))]),
        Sum([x \in T \X P \X J \X R |->
            Term(EX_jr[x] * d_jr[<<x[3], x[4]>>], XD_jr(x[1], x[2], x[3], x[4]))])),
        Sum([x \in T \X P \X J \X H |->
            Term(EX_jh[x] * d_jh[<<x[3], x[4]>>], XD_jh(x[1], x[2], x[3], x[4]))])),
        Sum([x \in T \X P \X J \X K |->
            Term(EX_jk[x] * d_jk[<<x[3], x[4]>>], XD_jk(x[1], x[2], x[3], x[4]))])),
        Sum([x \in T \X P \X R \X H |->
            Term(EX_rh[x] * d_rh[<<x[3], x[4]>>], XD_rh(x[1], x[2], x[3], x[4]))])),
        Sum([x \in T \X P \X R \X K |->
            Term(EX_rk[x] * d_rk[<<x[3], x[4]>>], XD_rk(x[1], x[2], x[3], x[4]))]))

inf_suministro_h ==
    Plus(Sum([x \in T \X P \X J \X H |-> Term(1, XD_jh(x[1], x[2], x[3], x[4]))]),
         Sum([x \in T \X P \X R \X H |-> Term(1, XD_rh(x[1], x[2], x[3], x[4]))]))

inf_suministro_k ==
    Plus(Sum([x \in T \X P \X J \X K |-> Term(1, XD_jk(x[1], x[2], x[3], x[4]))]),
         Sum([x \in T \X P \X R \X K |-> Term(1, XD_rk(x[1], x[2], x[3], x[4]))]))

\* The figures computed after an optimal solve.  Money is in 1/(16 Den) IDR,
\* emissions in 1/(KG Den) kg, the service rates are the percentages num/den.
Metricas(val) ==
    LET revenue_v == BigTimes(EvalBig(inf_revenue, val), IDR16)
        TC1_v == BigTimes(EvalBig(inf_TC1, val), IDR16)
        TC2_v == BigTimes(EvalBig(inf_TC2, val), IDR16)
        TC3_v == BigTimes(EvalBig(inf_TC3, val), IDR16)
        TC4_v == BigTimes(EvalBig(inf_TC4, val), IDR16)
        TC5_v == BigTimes(EvalBig(inf_TC5, val), IDR16)
        TC6_v == BigTimes(EvalBig(inf_TC6, val), IDR16 \div KM)
        emision_produccion == Eval(inf_emision_produccion, val)
        emision_inventario == Eval(inf_emision_inventario, val)
        emision_transporte == Eval(inf_emision_transporte, val)
        emision_total_v ==
            emision_produccion + emision_inventario + emision_transporte
        TC7_v == BigTimes(Big(emision_total_v), (EC * IDR16) \div KG)
        dem_h == SumN([x \in T \X P \X H |-> DM_h[x]])
        dem_k == SumN([x \in T \X P \X K |-> DM_k[x]])
    IN  [revenue |-> revenue_v,
         TC1 |-> TC1_v, TC2 |-> TC2_v, TC3 |-> TC3_v, TC4 |-> TC4_v,
         TC5 |-> TC5_v, TC6 |-> TC6_v, TC7 |-> TC7_v,
         emision_total |-> emision_total_v,
         beneficio_total |->
            BigPlus(revenue_v,
                BigNeg(BigPlus(BigPlus(BigPlus(BigPlus(BigPlus(BigPlus(
                    TC1_v, TC2_v), TC3_v), TC4_v), TC5_v), TC6_v), TC7_v))),
         TSH |-> IF dem_h > 0
                 THEN [num |-> 100 * Eval(inf_suministro_h, val),
                       den |-> dem_h * Den]
                 ELSE [num |-> 100, den |-> 1],
         TSK |-> IF dem_k > 0
                 THEN [num |-> 100 * Eval(inf_suministro_k, val),
                       den |-> dem_k * Den]
                 ELSE [num |-> 100, den |-> 1]]

(* ------------------------------ actions -------------------------------- *)
Init ==
    /\ pc = "normalizacion"
    /\ ALPHA \in 1..MaxALPHA
    /\ refs = <<>>
    /\ registro = <<>>
    /\ restricciones = <<>>
    /\ objetivo = <<>>
    /\ llamadas = 0
    /\ terminacion = "sin definir"
    /\ valores = <<>>
    /\ informe = <<>>
    /\ demanda = [h |-> DEMAND_ADJUSTED, k |-> DEMAND_ADJUSTED]

\* Lines 780-790: the three references are fixed constants.
ConfigurarNormalizacion ==
    /\ pc = "normalizacion"
    /\ refs' = [Z_Pro_ref |-> Z_Pro_ref, T_LS_ref |-> T_LS_ref,
                T_E_ref |-> T_E_ref]
    /\ pc' = "variables"
    /\ UNCHANGED <<ALPHA, registro, restricciones, objetivo, llamadas,
                   terminacion, valores, informe, demanda>>

\* crear_modelo_base: the variables and the empty ConstraintList.
DeclararVariables ==
    /\ pc = "variables"
    /\ registro' = Declaraciones
    /\ restricciones' = <<>>
    /\ pc' = "balance_rbb"
    /\ UNCHANGED <<ALPHA, refs, objetivo, llamadas, terminacion, valores,
                   informe, demanda>>

\* One constraint family of crear_modelo_base: its loop nest adds its
\* relations to the ConstraintList.
Familia(aqui, nuevas, luego) ==
    /\ pc = aqui
    /\ restricciones' = restricciones \o nuevas
    /\ pc' = luego
    /\ UNCHANGED <<ALPHA, refs, registro, objetivo, llamadas, terminacion,
                   valores, informe, demanda>>

AgregarBalanceRBB == Familia("balance_rbb", BalanceRBB, "balance_h")
AgregarBalanceH == Familia("balance_h", BalanceH, "balance_k")
AgregarBalanceK == Familia("balance_k", BalanceK, "capacidades")
AgregarCapacidades == Familia("capacidades", Capacidades, "carbon_cap")
AgregarCarbonCap == Familia("carbon_cap", CarbonCap, "suministro")
AgregarLimitesSuministro == Familia("suministro", LimitesSuministro, "vida_util")
AgregarVidaUtil == Familia("vida_util", VidaUtil(ALPHA), "activacion")
AgregarActivacionMinima == Familia("activacion", ActivacionMinima, "objetivo")

\* Composing that also appends a relation to the list.
AdjuntarObjetivo_con_efecto ==
    /\ pc = "objetivo"
    /\ objetivo' = Objective(refs)
    /\ restricciones' = Append(restricciones, restricciones[1])
    /\ pc' = "resolver"
    /\ UNCHANGED <<ALPHA, refs, registro, llamadas,
                   terminacion, valores, informe, demanda>>

\* modelo_final.objetivo = Objective(rule=..., sense=maximize)
AdjuntarObjetivo ==
    /\ pc = "objetivo"
    /\ objetivo' = Objective(refs)
    /\ pc' = "resolver"
    /\ UNCHANGED <<ALPHA, refs, registro, restricciones, llamadas,
                   terminacion, valores, informe, demanda>>

\* solucion_final = solver.solve(modelo_final): either an assignment that
\* satisfies the model is loaded and the termination is optimal, or the
\* solver ends otherwise and loads nothing. The assignments explored are the
\* plan with at most two values moved and the plan with a reserve.
Resolver ==
    /\ pc = "resolver"
    /\ llamadas' = llamadas + 1
    /\ pc' = "informe"
    /\ \/ \E base \in {Semilla(registro)}, hs \in {Handles(DOMAIN registro)} :
          \E a \in 1..Len(hs), d1 \in Deltas \ {0} :
          \E b \in a..Len(hs), d2 \in Deltas :
            LET val == Candidato(base, hs[a], d1, hs[b], d2)
            IN  /\ (b = a) => (d2 = 0)
                /\ Factible(registro, restricciones, val)
                /\ valores' = val
                /\ terminacion' = "optimal"
       \/ \E e \in {1, Den} :
            LET val == ConReserva(Semilla(registro), e)
            IN  /\ Factible(registro, restricciones, val)
                /\ valores' = val
                /\ terminacion' = "optimal"
       \/ /\ terminacion' \in {"infeasible", "unbounded", "maxTimeLimit"}
          /\ valores' = <<>>
    /\ UNCHANGED <<ALPHA, refs, registro, restricciones, objetivo, informe, demanda>>

\* A report that computes the figures whatever the termination.
Informar_siempre_metricas ==
    /\ pc = "informe"
    /\ informe' = Metricas(IF terminacion = "optimal" THEN valores
                           ELSE Semilla(registro))
    /\ pc' = "fin"
    /\ UNCHANGED <<ALPHA, refs, registro, restricciones, objetivo, llamadas,
                   terminacion, valores, demanda>>

\* Lines 891-965: the figures of an optimal solve, or the failure message.
Informar ==
    /\ pc = "informe"
    /\ informe' = IF terminacion = "optimal"
                  THEN Metricas(valores)
                  ELSE [terminacion |-> terminacion]
    /\ pc' = "fin"
    /\ UNCHANGED <<ALPHA, refs, registro, restricciones, objetivo, llamadas,
                   terminacion, valores, demanda>>

Next ==
    \/ ConfigurarNormalizacion
    \/ DeclararVariables
    \/ AgregarBalanceRBB
    \/ AgregarBalanceH
    \/ AgregarBalanceK
    \/ AgregarCapacidades
    \/ AgregarCarbonCap
    \/ AgregarLimitesSuministro
    \/ AgregarVidaUtil
    \/ AgregarActivacionMinima
    \/ AdjuntarObjetivo
    \/ Resolver
    \/ Informar

Spec == Init /\ [][Next]_vars

(* --------------- the composer on any configuration --------------------- *)
\* objetivo_combinado_corregido reads the module-level references and demand
\* tables. The script sets them to fixed literals; this specification runs
\* lines 883-889 on every configuration in which each reference and each
\* demand level is either the script's value or zero, on the built model,
\* with a plan of flows at which the composed criteria are evaluated.

\* A reference that is 0.0.
HayCero(rf) ==
    \E n \in {"Z_Pro_ref", "T_LS_ref", "T_E_ref"} : rf[n].hi = 0 /\ rf[n].lo = 0

InitComposer ==
    /\ pc = "componer"
    /\ ALPHA \in 1..MaxALPHA
    /\ refs \in [Z_Pro_ref : {Z_Pro_ref, [hi |-> 0, lo |-> 0, d |-> 1]},
                 T_LS_ref : {T_LS_ref, [hi |-> 0, lo |-> 0, d |-> 1]},
                 T_E_ref : {T_E_ref, [hi |-> 0, lo |-> 0, d |-> 1]}]
    /\ demanda \in [h : {0, DEMAND_ADJUSTED}, k : {0, DEMAND_ADJUSTED}]
    /\ registro = Declaraciones
    /\ restricciones = BalanceRBB \o BalanceH \o BalanceK \o Capacidades
                       \o CarbonCap \o LimitesSuministro \o VidaUtil(ALPHA)
                       \o ActivacionMinima
    /\ objetivo = <<>>
    /\ llamadas = 0
    /\ terminacion = "sin definir"
    /\ \E d1 \in {0, 1, Den}, d2 \in {0, 1, Den} :
         valores = Candidato(Semilla(registro), XD_jh(1, 1, 1, 1), d1,
                             XD_rk(1, 1, 1, 1), d2)
    /\ informe = <<>>

\* Line 883: Objective(rule=...) runs the rule on the built model at once.
\* The rule divides each criterion, a Pyomo expression, by its reference
\* (lines 877-879) and tests no reference. With a reference of 0.0 the
\* division either raises ZeroDivisionError on the spot or is kept as an
\* unevaluated quotient, as the installed Pyomo's division operator does.
Componer ==
    /\ pc = "componer"
    /\ \/ /\ objetivo' = Objective(refs)
          /\ pc' = "entregar"
       \/ /\ HayCero(refs)
          /\ objetivo' = objetivo
          /\ pc' = "error"
    /\ UNCHANGED <<ALPHA, refs, registro, restricciones, llamadas,
                   terminacion, valores, informe, demanda>>

\* Line 889: solver.solve(modelo_final) receives the model with its
\* objective; a quotient by 0.0 kept in the objective fails when the problem
\* is written out for the solver.
Entregar ==
    /\ pc = "entregar"
    /\ llamadas' = llamadas + 1
    /\ IF HayCero(refs)
       THEN pc' = "error" /\ terminacion' = terminacion
       ELSE pc' = "fin" /\ terminacion' = "optimal"
    /\ UNCHANGED <<ALPHA, refs, registro, restricciones, objetivo, valores,
                   informe, demanda>>

SpecComposer == InitComposer /\ [][Componer \/ Entregar]_vars

(* ======================= properties of the model ======================= *)
\* crear_modelo_base has returned: the constraint list is complete.
Construido == pc \in {"objetivo", "resolver", "informe", "fin"}

Optimo == terminacion = "optimal"

\* A relation in the form  net rel 0: its sense, and the constant and the
\* non-zero coefficients of lhs - rhs.
Neta(c) ==
    LET e == Minus(c.lhs, c.rhs)
    IN  [rel |-> c.rel, k |-> e.k,
         c |-> [v \in {x \in DOMAIN e.c : e.c[x] # 0} |-> e.c[v]]]

Netas == [n \in 1..Len(restricciones) |-> Neta(restricciones[n])]

\* How many relations of a list of net relations are equal to r.
Veces(netas, r) == Cardinality({n \in 1..Len(netas) : netas[n] = r})

\* The relation  sum of the variables of Mas  rel  sum of those of Menos + k.
Relacion(Mas, op, Menos, k) ==
    [rel |-> op, k |-> -k,
     c |-> [v \in Mas \cup Menos |-> IF v \in Mas THEN 1 ELSE -1]]

\* The sum of the solver's values of a set of variables.
Total(S) == SumN([v \in S |-> valores[v]])

(* ------------------------------- C1 ------------------------------------ *)
C1_Entradas(t, p, r) ==
    (IF t = 1 THEN {} ELSE {IR(t - 1, p, r)}) \cup {PR(t, p, r)}
    \cup {XD_ir(t, p, i, r) : i \in I} \cup {XD_jr(t, p, j, r) : j \in J}
    \cup {XD_rr(t, p, r2, r) : r2 \in R \ {r}}

C1_Salidas(t, p, r) ==
    {IR(t, p, r)} \cup {XD_rh(t, p, r, h) : h \in H}
    \cup {XD_rk(t, p, r, k) : k \in K}
    \cup {XD_rr(t, p, r, r2) : r2 \in R \ {r}}
    \cup {XD_ru(t, p, r, u) : u \in U} \cup {WO_r(t, p, r)}

\* C1: for every period t, product p and regional bank r the constraint list
\* holds exactly one balance equality, IR[t-1] + PR + the inflows from mobile
\* units, local centers and the other banks = IR[t] + the flows to hospitals,
\* clinics, the other banks and waste centers + WO_r, with the literal 0 (no
\* variable) for IR[t-1] in the first period; every assignment the solver
\* returns as optimal satisfies that equation.
C1_BalanceRBB ==
    /\ Construido =>
         \E netas \in {Netas} : \A t \in T, p \in P, r \in R :
           /\ C1_Entradas(t, p, r) \cup C1_Salidas(t, p, r)
                 \subseteq DOMAIN registro
           /\ Veces(netas, Relacion(C1_Entradas(t, p, r), "==",
                                    C1_Salidas(t, p, r), 0)) = 1
    /\ Optimo =>
         \A t \in T, p \in P, r \in R :
           Total(C1_Entradas(t, p, r)) = Total(C1_Salidas(t, p, r))

\* A returned assignment in which two banks transfer to each other and the
\* first bank carries stock from the first period into the second.
C1_Witness ==
    /\ Optimo
    /\ \E p \in P :
         /\ valores[XD_rr(2, p, 1, 2)] > 0
         /\ valores[XD_rr(2, p, 2, 1)] > 0
         /\ valores[IR(1, p, 1)] > 0

(* ------------------------------- C2 ------------------------------------ *)
C2_EntradasH(t, p, h) ==
    (IF t = 1 THEN {} ELSE {IH(t - 1, p, h)})
    \cup {XD_jh(t, p, j, h) : j \in J} \cup {XD_rh(t, p, r, h) : r \in R}

C2_SalidasH(t, p, h) ==
    {IH(t, p, h)} \cup {XD_hu(t, p, h, u) : u \in U} \cup {WO_h(t, p, h)}

C2_EntradasK(t, p, k) ==
    (IF t = 1 THEN {} ELSE {IK(t - 1, p, k)})
    \cup {XD_jk(t, p, j, k) : j \in J} \cup {XD_rk(t, p, r, k) : r \in R}

C2_SalidasK(t, p, k) ==
    {IK(t, p, k)} \cup {XD_ku(t, p, k, u) : u \in U} \cup {WO_k(t, p, k)}

\* C2: for every period, product and hospital (resp. clinic) the list holds
\* exactly one balance equality: previous inventory (literal 0 in the first
\* period) + inflow from all local centers + inflow from all regional banks =
\* inventory + the fixed demand DM + flow to all waste centers + discard, with
\* no production term; the balance equalities are the only equalities of the
\* list; every assignment returned as optimal satisfies the equations.
C2_BalanceDemanda ==
    /\ Construido =>
         \E netas \in {Netas} :
           /\ \A t \in T, p \in P, h \in H :
                Veces(netas, Relacion(C2_EntradasH(t, p, h), "==",
                          C2_SalidasH(t, p, h), DM_h[<<t, p, h>>])) = 1
           /\ \A t \in T, p \in P, k \in K :
                Veces(netas, Relacion(C2_EntradasK(t, p, k), "==",
                          C2_SalidasK(t, p, k), DM_k[<<t, p, k>>])) = 1
           /\ Cardinality({n \in 1..Len(netas) : netas[n].rel = "=="})
                = NT * NP * (NR + NH + NK)
    /\ Optimo =>
         /\ \A t \in T, p \in P, h \in H :
              Total(C2_EntradasH(t, p, h))
                = Total(C2_SalidasH(t, p, h)) + Den * DM_h[<<t, p, h>>]
         /\ \A t \in T, p \in P, k \in K :
              Total(C2_EntradasK(t, p, k))
                = Total(C2_SalidasK(t, p, k)) + Den * DM_k[<<t, p, k>>]

\* A returned assignment in which a hospital is supplied by a local center
\* and sends part of what it receives to a waste center.
C2_Witness ==
    /\ Optimo
    /\ \E t \in T, p \in P, h \in H, j \in J, u \in U :
         /\ valores[XD_jh(t, p, j, h)] > 0
         /\ valores[XD_hu(t, p, h, u)] > 0

(* ------------------------------- C3 ------------------------------------ *)
\* A relation  discard <= inventory  between two variables.
C3_Forma(r) ==
    /\ r.rel = "<="
    /\ r.k = 0
    /\ \E w \in DOMAIN r.c, s \in DOMAIN r.c :
         /\ DOMAIN r.c = {w, s}
         /\ w[1] \in {"WO_r", "WO_h", "WO_k"} /\ r.c[w] = 1
         /\ s[1] \in {"IR", "IH", "IK"} /\ r.c[s] = -1

C3_Pares(t, p) ==
    {<<WO_r(t, p, r), IR(t - ALPHA, p, r)>> : r \in R}
    \cup {<<WO_h(t, p, h), IH(t - ALPHA, p, h)>> : h \in H}
    \cup {<<WO_k(t, p, k), IK(t - ALPHA, p, k)>> : k \in K}

C3_Max(a, b) == IF a >= b THEN a ELSE b

\* C3: for every period t > ALPHA, product and inventory-holding node the list
\* holds exactly one relation discard[t] <= inventory[t - ALPHA] of that same
\* node and product; the list holds no other relation of that form, so there
\* are max(0, |T| - ALPHA) * |P| * (|R| + |H| + |K|) of them and none for a
\* period t <= ALPHA.
C3_VidaUtil ==
    Construido =>
      \E netas \in {Netas} :
        /\ \A t \in T, p \in P : t > ALPHA =>
             \A x \in C3_Pares(t, p) :
               Veces(netas, Relacion({x[1]}, "<=", {x[2]}, 0)) = 1
        /\ \A n \in 1..Len(netas) : C3_Forma(netas[n]) =>
             \E t \in T, p \in P : \E x \in C3_Pares(t, p) :
               /\ t > ALPHA
               /\ netas[n] = Relacion({x[1]}, "<=", {x[2]}, 0)
        /\ Cardinality({n \in 1..Len(netas) : C3_Forma(netas[n])})
             = C3_Max(0, NT - ALPHA) * NP * (NR + NH + NK)

\* The model is built with a shelf life shorter than the horizon, and the
\* solver returns an assignment that discards stock in a period t <= ALPHA,
\* where nothing bounds the discard.
C3_Witness ==
    /\ Optimo
    /\ ALPHA < NT
    /\ \E t \in T, p \in P, r \in R : t <= ALPHA /\ valores[WO_r(t, p, r)] > 0

(* ------------------------------- C4 ------------------------------------ *)
\* The emissions the objective's emissions term charges to one unit of a
\* variable: production, inventory at the three node classes, and flow x
\* distance x factor on the six routes of that term; nothing for any other
\* variable.
C4_Factor(v) ==
    LET x == v[2] IN
    CASE v[1] = "PR" -> EP[x]
      [] v[1] = "IR" -> EI_r[x]
      [] v[1] = "IH" -> EI_h[x]
      [] v[1] = "IK" -> EI_k[x]
      [] v[1] = "XD_ir" -> EX_ir[x] * d_ir[<<x[3], x[4]>>]
      [] v[1] = "XD_jr" -> EX_jr[x] * d_jr[<<x[3], x[4]>>]
      [] v[1] = "XD_jh" -> EX_jh[x] * d_jh[<<x[3], x[4]>>]
      [] v[1] = "XD_jk" -> EX_jk[x] * d_jk[<<x[3], x[4]>>]
      [] v[1] = "XD_rh" -> EX_rh[x] * d_rh[<<x[3], x[4]>>]
      [] v[1] = "XD_rk" -> EX_rk[x] * d_rk[<<x[3], x[4]>>]
      [] OTHER -> 0

\* The variables of period t that carry emissions in that term.
C4_Emisores(t) ==
    {v \in DOMAIN registro :
        /\ v[1] \notin {"y_i", "y_j", "y_r"}
        /\ v[2][1] = t
        /\ C4_Factor(v) # 0}

\* The period's emissions under the solver's values, in 1/(KG Den) kg.
C4_Emision(t) == SumN([v \in C4_Emisores(t) |-> C4_Factor(v) * valores[v]])

\* A relation that bounds emission-weighted production from above.
C4_EsTope(r) ==
    /\ r.rel = "<="
    /\ \E v \in DOMAIN r.c : v[1] = "PR" /\ r.c[v] = EP[v[2]]

\* The net relation n is a cap of period t over the whole system: bounded by
\* CAP[t], it weights every emitter of the period with the factor of the
\* objective's term, and nothing else negatively.
C4_TopeDe(r, t) ==
    /\ C4_EsTope(r)
    /\ r.k = -CAP[t]
    /\ C4_Emisores(t) \subseteq DOMAIN r.c
    /\ \A v \in DOMAIN r.c :
         /\ v[2][1] = t
         /\ IF v \in C4_Emisores(t) THEN r.c[v] = C4_Factor(v) ELSE r.c[v] > 0

\* C4: the list holds exactly one environmental-cap relation per period, |T|
\* in all and none per node, and in every assignment returned as optimal the
\* period's total emissions as the objective's emissions term defines them
\* (production, inventory at banks, hospitals and clinics, transport on the
\* routes of that term) are <= CAP[t], equality allowed.
C4_TopeAmbiental ==
    /\ Construido =>
         \E netas \in {Netas} :
           /\ \A t \in T :
                Cardinality({n \in 1..Len(netas) : C4_TopeDe(netas[n], t)}) = 1
           /\ Cardinality({n \in 1..Len(netas) : C4_EsTope(netas[n])}) = NT
    /\ Optimo => \A t \in T : C4_Emision(t) <= Den * CAP[t]

\* A returned assignment with emissions in every period and a transfer
\* between two banks, which the cap counts and the objective's term does not.
C4_Witness ==
    /\ Optimo
    /\ \A t \in T : C4_Emision(t) > 0
    /\ \E t \in T, p \in P : valores[XD_rr(t, p, 1, 2)] > 0

(* ------------------------------- C5 ------------------------------------ *)
C5_SuministroH(t, p, h) ==
    {XD_jh(t, p, j, h) : j \in J} \cup {XD_rh(t, p, r, h) : r \in R}

C5_SuministroK(t, p, k) ==
    {XD_jk(t, p, j, k) : j \in J} \cup {XD_rk(t, p, r, k) : r \in R}

\* The relation  sum of S <= (m / 10) * d.
C5_Limite(S, m, d) ==
    [rel |-> "<=", k |-> -(m * d), c |-> [v \in S |-> 10]]

\* C5: for every (t, p) the supply a hospital receives from all local centers
\* and regional banks is <= 1.1 * DM_h[t,p,h], and the supply a clinic
\* receives is <= 1.6 * DM_k[t,p,k], in every assignment returned as optimal;
\* the list holds that relation once per (t, p, node).
C5_LimiteSuministro ==
    /\ Construido =>
         \E netas \in {Netas} :
           /\ \A t \in T, p \in P, h \in H :
                Veces(netas, C5_Limite(C5_SuministroH(t, p, h), 11,
                                       DM_h[<<t, p, h>>])) = 1
           /\ \A t \in T, p \in P, k \in K :
                Veces(netas, C5_Limite(C5_SuministroK(t, p, k), 16,
                                       DM_k[<<t, p, k>>])) = 1
    /\ Optimo =>
         /\ \A t \in T, p \in P, h \in H :
              10 * Total(C5_SuministroH(t, p, h)) <= 11 * Den * DM_h[<<t, p, h>>]
         /\ \A t \in T, p \in P, k \in K :
              10 * Total(C5_SuministroK(t, p, k)) <= 16 * Den * DM_k[<<t, p, k>>]

\* A returned assignment that gives a hospital more than its demand.
C5_Witness ==
    /\ Optimo
    /\ \E t \in T, p \in P, h \in H :
         Total(C5_SuministroH(t, p, h)) > Den * DM_h[<<t, p, h>>]

(* ------------------------------- C6 ------------------------------------ *)
C6_Activaciones ==
    {{y_i(t, i) : t \in T} : i \in I} \cup {{y_j(t, j) : t \in T} : j \in J}
    \cup {{y_r(t, r) : t \in T} : r \in R}

\* C6: for every mobile unit, local center and regional bank the list holds
\* exactly one relation  sum over all periods of its activation variable >= 1,
\* |I| + |J| + |R| relations in all, and in every assignment returned as
\* optimal every facility is active in at least one period.
C6_ActivacionMinima ==
    /\ Construido =>
         \E netas \in {Netas} :
           /\ \A S \in C6_Activaciones : Veces(netas, Relacion(S, ">=", {}, 1)) = 1
           /\ Cardinality({n \in 1..Len(netas) : netas[n].rel = ">="})
                = NI + NJ + NR
           /\ Cardinality(C6_Activaciones) = NI + NJ + NR
    /\ Optimo =>
         \A S \in C6_Activaciones :
           /\ Total(S) >= Den
           /\ \E v \in S : valores[v] = Den

\* A returned assignment with a facility active in one period only and
\* another active in two.
C6_Witness ==
    /\ Optimo
    /\ \E S \in C6_Activaciones : Total(S) = Den
    /\ \E S \in C6_Activaciones : Total(S) = 2 * Den

(* ------------------------------- C7 ------------------------------------ *)
C7_Continuas ==
    {"XD_ir", "XD_jr", "XD_jh", "XD_jk", "XD_rh", "XD_rk", "XD_rr", "XD_ru",
     "XD_hu", "XD_ku", "PR", "IR", "IH", "IK", "WO_r", "WO_h", "WO_k"}

C7_Binarias == {"y_i", "y_j", "y_r"}

C7_Declarado == pc \notin {"normalizacion", "variables"}

\* C7: every flow, production, inventory and expired-blood variable is
\* declared non-negative real and every activation variable binary, so in
\* every assignment returned as optimal the former are >= 0 and the latter
\* are 0 or 1.
C7_Dominios ==
    /\ C7_Declarado =>
         /\ \A v \in DOMAIN registro :
              \/ v[1] \in C7_Continuas /\ registro[v] = "NonNegativeReals"
              \/ v[1] \in C7_Binarias /\ registro[v] = "Binary"
         /\ \A n \in C7_Continuas \cup C7_Binarias :
              \E v \in DOMAIN registro : v[1] = n
    /\ Optimo =>
         \A v \in DOMAIN registro :
           /\ v[1] \in C7_Continuas => valores[v] >= 0
           /\ v[1] \in C7_Binarias => valores[v] \in {0, Den}

\* A returned assignment with an idle facility, an active one and a
\* fractional amount of blood.
C7_Witness ==
    /\ Optimo
    /\ \E v \in DOMAIN registro : v[1] \in C7_Binarias /\ valores[v] = 0
    /\ \E v \in DOMAIN registro : v[1] \in C7_Binarias /\ valores[v] = Den
    /\ \E v \in DOMAIN registro :
         v[1] \in C7_Continuas /\ valores[v] > 0 /\ valores[v] % Den # 0

(* ------------------------------- C8 ------------------------------------ *)
C8_DespachoBM(t, p, i) == {XD_ir(t, p, i, r) : r \in R}

C8_DespachoLBDC(t, p, j) ==
    {XD_jr(t, p, j, r) : r \in R} \cup {XD_jh(t, p, j, h) : h \in H}
    \cup {XD_jk(t, p, j, k) : k \in K}

\* C8: for every (t, p) the list holds  PR <= PA  and  IR <= SC_r  for every
\* regional bank,  IH <= SC_h  for every hospital,  IK <= SC_k  for every
\* clinic,  sum over r of XD_ir <= CAP_BM  for every mobile unit and  sum of
\* XD_jr, XD_jh and XD_jk <= CAP_LBDC  for every local center, and every
\* assignment returned as optimal satisfies them.
C8_Capacidades ==
    /\ Construido =>
         \E netas \in {Netas} :
           \A t \in T, p \in P :
             /\ \A r \in R :
                  /\ Veces(netas, Relacion({PR(t, p, r)}, "<=", {},
                                           PA[<<t, p, r>>])) = 1
                  /\ Veces(netas, Relacion({IR(t, p, r)}, "<=", {},
                                           SC_r[<<p, r>>])) = 1
             /\ \A h \in H :
                  Veces(netas, Relacion({IH(t, p, h)}, "<=", {},
                                        SC_h[<<p, h>>])) = 1
             /\ \A k \in K :
                  Veces(netas, Relacion({IK(t, p, k)}, "<=", {},
                                        SC_k[<<p, k>>])) = 1
             /\ \A i \in I :
                  Veces(netas, Relacion(C8_DespachoBM(t, p, i), "<=", {},
                                        CAP_BM[<<t, p, i>>])) = 1
             /\ \A j \in J :
                  Veces(netas, Relacion(C8_DespachoLBDC(t, p, j), "<=", {},
                                        CAP_LBDC[<<t, p, j>>])) = 1
    /\ Optimo =>
         \A t \in T, p \in P :
           /\ \A r \in R :
                /\ valores[PR(t, p, r)] <= Den * PA[<<t, p, r>>]
                /\ valores[IR(t, p, r)] <= Den * SC_r[<<p, r>>]
           /\ \A h \in H : valores[IH(t, p, h)] <= Den * SC_h[<<p, h>>]
           /\ \A k \in K : valores[IK(t, p, k)] <= Den * SC_k[<<p, k>>]
           /\ \A i \in I :
                Total(C8_DespachoBM(t, p, i)) <= Den * CAP_BM[<<t, p, i>>]
           /\ \A j \in J :
                Total(C8_DespachoLBDC(t, p, j)) <= Den * CAP_LBDC[<<t, p, j>>]

\* A returned assignment in which a local center dispatches blood and a
\* regional bank produces and stores it.
C8_Witness ==
    /\ Optimo
    /\ \E t \in T, p \in P, j \in J : Total(C8_DespachoLBDC(t, p, j)) > 0
    /\ \E t \in T, p \in P, r \in R :
         valores[PR(t, p, r)] > 0 /\ valores[IR(t, p, r)] > 0

(* ------------------------------- C9 ------------------------------------ *)
C9_Adjunto == pc \in {"resolver", "informe", "fin"}

\* The variables of a linear expression.
C9_Variables(e) == {v \in DOMAIN e.c : e.c[v] # 0}

\* The variables the relations of the list use.
C9_EnRestricciones ==
    UNION {C9_Variables(restricciones[n].lhs)
           \cup C9_Variables(restricciones[n].rhs) : n \in 1..Len(restricciones)}

\* C9: the single objective is maximised and is
\* W1 * (profit / Z_Pro_ref) + W2 * (service_level / T_LS_ref)
\* - W3 * (emissions / T_E_ref), with weights 0.5, 0.3 and 0.2; the three
\* references are fixed constants, set before the model is built and before
\* any solve and the same ever after, and the three criteria are expressions
\* over the variables the relations of the list use.
C9_Objetivo ==
    /\ pc # "normalizacion" =>
         refs = [Z_Pro_ref |-> Z_Pro_ref, T_LS_ref |-> T_LS_ref,
                 T_E_ref |-> T_E_ref]
    /\ pc \in {"normalizacion", "variables"} =>
         registro = <<>> /\ llamadas = 0 /\ objetivo = <<>>
    /\ C9_Adjunto =>
         /\ objetivo.sense = "maximize"
         /\ Len(objetivo.expr) = 3
         /\ objetivo.expr[1] = [peso |-> 5, ref |-> refs.Z_Pro_ref,
                                criterio |-> Frac(beneficio_total, IDR16)]
         /\ objetivo.expr[2] = [peso |-> 3, ref |-> refs.T_LS_ref,
                                criterio |-> tasa_cumplimiento]
         /\ objetivo.expr[3] = [peso |-> -2, ref |-> refs.T_E_ref,
                                criterio |-> Frac(emision_total, KG)]
         /\ \A n \in 1..3 :
              /\ C9_Variables(objetivo.expr[n].criterio.num) \subseteq DOMAIN registro
              /\ C9_Variables(objetivo.expr[n].criterio.num) \subseteq C9_EnRestricciones
              /\ objetivo.expr[n].criterio.den > 0

\* The objective is attached to the built model and the solver has not run.
C9_Witness ==
    /\ pc = "resolver"
    /\ llamadas = 0
    /\ Len(restricciones) > 0
    /\ objetivo.sense = "maximize"

(* ------------------------------- C10 ----------------------------------- *)
\* IDR earned by one unit of a variable: sales from regional banks only.
C10_Ingreso(v) ==
    CASE v[1] = "XD_rh" -> SP_rh[v[2]]
      [] v[1] = "XD_rk" -> SP_rk[v[2]]
      [] OTHER -> 0

\* IDR paid for one unit of a variable, transport and emissions apart: fixed
\* activation of mobile units and local centers, acquisition on i->r and
\* j->r, production, holding and discard handling at the three node classes.
C10_Costo(v) ==
    CASE v[1] = "y_i" -> FC_BM
      [] v[1] = "y_j" -> FC_LBDC
      [] v[1] = "XD_ir" -> PC_ir[v[2]]
      [] v[1] = "XD_jr" -> PC_jr[v[2]]
      [] v[1] = "PR" -> OC[v[2]]
      [] v[1] = "IR" -> IC_r[v[2]]
      [] v[1] = "IH" -> IC_h[v[2]]
      [] v[1] = "IK" -> IC_k[v[2]]
      [] v[1] = "WO_r" -> WC_r[v[2]]
      [] v[1] = "WO_h" -> WC_h[v[2]]
      [] v[1] = "WO_k" -> WC_k[v[2]]
      [] OTHER -> 0

\* Quarter IDR paid to move one unit: cost x distance on the ten route
\* families, the transfers of a bank to itself excluded.
C10_Transporte(v) ==
    LET x == v[2] IN
    CASE v[1] = "XD_ir" -> XC_ir[x] * d_ir[<<x[3], x[4]>>]
      [] v[1] = "XD_jr" -> XC_jr[x] * d_jr[<<x[3], x[4]>>]
      [] v[1] = "XD_jh" -> XC_jh[x] * d_jh[<<x[3], x[4]>>]
      [] v[1] = "XD_jk" -> XC_jk[x] * d_jk[<<x[3], x[4]>>]
      [] v[1] = "XD_rh" -> XC_rh[x] * d_rh[<<x[3], x[4]>>]
      [] v[1] = "XD_rk" -> XC_rk[x] * d_rk[<<x[3], x[4]>>]
      [] v[1] = "XD_rr" /\ x[3] # x[4] -> XC_rr[x] * d_rr[<<x[3], x[4]>>]
      [] v[1] = "XD_ru" -> XC_ru[x] * d_ru[<<x[3], x[4]>>]
      [] v[1] = "XD_hu" -> XC_hu[x] * d_hu[<<x[3], x[4]>>]
      [] v[1] = "XD_ku" -> XC_ku[x] * d_ku[<<x[3], x[4]>>]
      [] OTHER -> 0

\* C10: the profit of the objective is revenue minus seven costs: revenue
\* only from the flows regional bank -> hospital and regional bank -> clinic,
\* fixed activation, acquisition only on mobile unit -> bank and local center
\* -> bank, production, holding and discard handling over banks, hospitals
\* and clinics, transport over the ten route families without transfers of a
\* bank to itself, and EC times the very expression of total emissions that
\* the objective's emissions criterion uses; it has no constant part.
C10_Beneficio ==
    C9_Adjunto =>
      LET beneficio == objetivo.expr[1].criterio
          emisiones == objetivo.expr[3].criterio
      IN  /\ beneficio.den = IDR16
          /\ emisiones.den = KG
          /\ beneficio.num.k = 0
          /\ C9_Variables(beneficio.num) \subseteq DOMAIN registro
          /\ \A v \in DOMAIN registro :
               Coef(beneficio.num, v) =
                   IDR16 * (C10_Ingreso(v) - C10_Costo(v))
                   - (IDR16 \div KM) * C10_Transporte(v)
                   - ((IDR16 * EC) \div KG) * Coef(emisiones.num, v)

\* The objective is attached and the solver returned an assignment that
\* sells blood from a bank, discards some at a clinic or moves some between
\* two banks.
C10_Witness ==
    /\ pc = "informe"
    /\ Optimo
    /\ \E v \in DOMAIN registro : v[1] \in {"XD_rh", "XD_rk"} /\ valores[v] > 0
    /\ \E v \in DOMAIN registro :
         /\ \/ v[1] = "WO_k"
            \/ v[1] = "XD_rr" /\ v[2][3] # v[2][4]
         /\ valores[v] > 0

(* ------------------------------- C11 ----------------------------------- *)
C11_Rutas ==
    {"XD_ir", "XD_jr", "XD_jh", "XD_jk", "XD_rh", "XD_rk", "XD_rr", "XD_ru",
     "XD_hu", "XD_ku"}

C11_Residuos == {"XD_ru", "XD_hu", "XD_ku"}

\* The route families whose flows the objective's emissions criterion weighs.
C11_RutasObjetivo ==
    {v[1] : v \in C9_Variables(objetivo.expr[3].criterio.num)} \cap C11_Rutas

\* The route families whose flows the environmental-cap relations weigh.
C11_RutasTope ==
    LET netas == Netas
    IN  UNION {{v[1] : v \in DOMAIN netas[n].c} :
               n \in {m \in 1..Len(netas) : C4_EsTope(netas[m])}} \cap C11_Rutas

\* C11: the route families whose transport emissions enter the objective's
\* total emissions are exactly those whose transport emissions enter the
\* environmental cap of a period: the three waste routes are in neither and
\* every other route family is in both.
C11_MismasRutas ==
    C9_Adjunto =>
      /\ C11_RutasObjetivo = C11_RutasTope
      /\ C11_RutasObjetivo \cap C11_Residuos = {}
      /\ C11_RutasTope \cap C11_Residuos = {}
      /\ C11_Rutas \ C11_Residuos \subseteq C11_RutasObjetivo
      /\ C11_Rutas \ C11_Residuos \subseteq C11_RutasTope

(* ------------------------------- C12 ----------------------------------- *)
C12_Compuesto == pc \in {"entregar", "fin"} /\ objetivo # <<>>

C12_EntregasH ==
    {v \in DOMAIN registro : v[1] \in {"XD_jh", "XD_rh"}}

C12_EntregasK ==
    {v \in DOMAIN registro : v[1] \in {"XD_jk", "XD_rk"}}

C12_DemandaH == SumN([x \in T \X P \X H |-> demanda.h])

C12_DemandaK == SumN([x \in T \X P \X K |-> demanda.k])

\* The value at the plan of the part of a linear expression over the
\* variables of S, in 1/Den.
C12_Parte(e, S) == SumN([v \in S |-> Coef(e, v) * valores[v]])

\* C12: the service criterion num / den of the composed objective is
\* TSH + TSK with TSH = 0.8 * (flow delivered to hospitals from local centers
\* and regional banks over all t, p) / (total hospital demand) and
\* TSK = 0.2 * (flow delivered to clinics) / (total clinic demand); a term
\* whose total demand is zero is the constant 0.8, respectively 0.2, and
\* weighs no flow, so nothing is divided by zero; when the deliveries to
\* hospitals equal their demand in every period the hospital term is 0.8.
C12_Cumplimiento ==
    C12_Compuesto =>
      LET c == objetivo.expr[2].criterio
          kh == IF C12_DemandaH = 0 THEN 8 ELSE 0
          kk == IF C12_DemandaK = 0 THEN 2 ELSE 0
      IN  /\ c.den > 0
          /\ 10 * c.num.k = (kh + kk) * c.den
          /\ \A v \in DOMAIN registro :
               CASE v \in C12_EntregasH /\ C12_DemandaH > 0 ->
                      10 * C12_DemandaH * Coef(c.num, v) = 8 * c.den
                 [] v \in C12_EntregasK /\ C12_DemandaK > 0 ->
                      10 * C12_DemandaK * Coef(c.num, v) = 2 * c.den
                 [] OTHER -> Coef(c.num, v) = 0
          /\ (/\ C12_DemandaH > 0
              /\ \A t \in T, p \in P, h \in H :
                   Total(C5_SuministroH(t, p, h)) = Den * DM_h[<<t, p, h>>])
             => 10 * C12_Parte(c.num, C12_EntregasH) = 8 * c.den * Den

\* The composer ran with no hospital demand and some clinic demand, and it
\* ran with hospital demand met exactly in every period.
C12_Witness ==
    /\ C12_Compuesto
    /\ C12_DemandaH = 0
    /\ C12_DemandaK > 0
    /\ objetivo.expr[2].criterio.num.k > 0

(* ------------------------------- C13 ----------------------------------- *)
\* C13: with a reference denominator equal to zero, composing the objective
\* fails before any solve attempt: once line 883 has run the script has
\* stopped with an error, the solver was never called and no objective was
\* attached to the model.
C13_FalloAntes ==
    (HayCero(refs) /\ pc # "componer") =>
      /\ pc = "error"
      /\ llamadas = 0
      /\ objetivo = <<>>

(* ------------------------------- C14 ----------------------------------- *)
\* A flow of a regional bank to itself.
C14_Propia(v) == v[1] = "XD_rr" /\ v[2][3] = v[2][4]

\* No sum of a relation of the list or of a criterion of the objective
\* ranges over a flow of a bank to itself.
C14_FueraDeSumas ==
    /\ \A n \in 1..Len(restricciones) :
         \A v \in C9_Variables(restricciones[n].lhs)
                  \cup C9_Variables(restricciones[n].rhs) : ~C14_Propia(v)
    /\ (objetivo # <<>>) =>
         \A n \in 1..Len(objetivo.expr) :
           \A v \in C9_Variables(objetivo.expr[n].criterio.num) : ~C14_Propia(v)

\* C14: transfers of a regional bank to itself are excluded from the
\* declared variables (no XD_rr[t,p,r,r] exists) and from every sum over
\* other regional banks (balance inflow and outflow, environmental cap,
\* transport cost).
C14_SinAutoTransferencias ==
    /\ \A v \in DOMAIN registro : ~C14_Propia(v)
    /\ C14_FueraDeSumas

(* ------------------------------- C15 ----------------------------------- *)
\* The nodes that hold inventory.
C15_Nodos ==
    {<<"R", r>> : r \in R} \cup {<<"H", h>> : h \in H} \cup {<<"K", k>> : k \in K}

C15_Inventario(t, p, n) ==
    CASE n[1] = "R" -> IR(t, p, n[2])
      [] n[1] = "H" -> IH(t, p, n[2])
      [] n[1] = "K" -> IK(t, p, n[2])

C15_Descarte(t, p, n) ==
    CASE n[1] = "R" -> WO_r(t, p, n[2])
      [] n[1] = "H" -> WO_h(t, p, n[2])
      [] n[1] = "K" -> WO_k(t, p, n[2])

\* What the node receives in period t: production and inbound flows.
C15_Recibido(t, p, n) ==
    CASE n[1] = "R" -> C1_Entradas(t, p, n[2]) \ {IR(s, p, n[2]) : s \in T}
      [] n[1] = "H" -> C2_EntradasH(t, p, n[2]) \ {IH(s, p, n[2]) : s \in T}
      [] n[1] = "K" -> C2_EntradasK(t, p, n[2]) \ {IK(s, p, n[2]) : s \in T}

\* At the end of period t the node holds more of p than it received during
\* the last ALPHA periods: first in, first out, some of it is older than ALPHA.
C15_Vencido(t, p, n) ==
    valores[C15_Inventario(t, p, n)] >
      SumN([s \in {u \in T : u <= t /\ u > t - ALPHA} |->
               Total(C15_Recibido(s, p, n))])

\* C15: in every assignment returned as optimal, whenever a node holds stock
\* of a product older than ALPHA at the end of a period, the discard of that
\* node and product is positive in that period or in a later one.
C15_VencidoSeDescarta ==
    Optimo =>
      \A t \in T, p \in P : \A n \in C15_Nodos :
        C15_Vencido(t, p, n) =>
          \E s \in {u \in T : u >= t} : valores[C15_Descarte(s, p, n)] > 0

(* ------------------------------- C16 ----------------------------------- *)
\* The model the script hands to the solver: every declaration and every
\* constraint family.
C16_ModeloCompleto ==
    /\ registro = Declaraciones
    /\ restricciones = BalanceRBB \o BalanceH \o BalanceK \o Capacidades
                         \o CarbonCap \o LimitesSuministro \o VidaUtil(ALPHA)
                         \o ActivacionMinima

\* C16: the solver is called on the complete model with the objective
\* attached; it is called once; after the call the variables, the
\* constraints, the objective and the loaded result never change; and a run
\* whose termination is not optimal ends with the termination alone in its
\* report, no metric computed and no second call.
C16_UnaSolaLlamada ==
    /\ [](llamadas <= 1)
    /\ [][llamadas' # llamadas =>
            /\ llamadas' = llamadas + 1
            /\ C16_ModeloCompleto
            /\ objetivo # <<>>]_vars
    /\ [][llamadas >= 1 =>
            UNCHANGED <<registro, restricciones, objetivo, llamadas,
                        terminacion, valores>>]_vars
    /\ []((pc = "fin" /\ ~Optimo) =>
            /\ llamadas = 1
            /\ informe = [terminacion |-> terminacion])

\* The run that ended after a solve that was not optimal.
C16_Witness ==
    /\ pc = "fin"
    /\ llamadas = 1
    /\ terminacion \in {"infeasible", "unbounded", "maxTimeLimit"}
    /\ C16_ModeloCompleto
    /\ objetivo # <<>>
    /\ DOMAIN informe = {"terminacion"}

(* ------------------------------- C17 ----------------------------------- *)
\* C17: composing the objective creates, deletes and alters no variable and
\* no constraint, and the composed expression is a function of the registry
\* and the parameter tables alone: composed again in any later state, after
\* the solve has loaded values and after the report, it is the identical
\* expression, so it takes the identical value at the loaded assignment.
C17_ComposicionPura ==
    /\ [][objetivo' # objetivo =>
            /\ objetivo = <<>>
            /\ UNCHANGED <<registro, restricciones, valores, refs, demanda>>]_vars
    /\ [](objetivo # <<>> =>
            /\ objetivo = Objective(refs)
            /\ \A n \in 1..Len(objetivo.expr) :
                 DOMAIN objetivo.expr[n].criterio.num.c \subseteq DOMAIN registro)

\* The objective was composed, a solve loaded an assignment and the report
\* evaluated it; the registry and the list are those that were built.
C17_Witness ==
    /\ pc = "fin"
    /\ Optimo
    /\ objetivo = Objective(refs)
    /\ registro = Declaraciones
    /\ Len(restricciones) = Len(BalanceRBB) + Len(BalanceH) + Len(BalanceK)
         + Len(Capacidades) + Len(CarbonCap) + Len(LimitesSuministro)
         + Len(VidaUtil(ALPHA)) + Len(ActivacionMinima)
    /\ DOMAIN valores = DOMAIN registro

(* ------------------------------- C18 ----------------------------------- *)
\* v is the midpoint of a..b truncated to an integer (a + b >= 0).
C18_Medio(v, a, b) == 2 * v <= a + b /\ a + b <= 2 * v + 1

\* Every entry of the table is the truncated midpoint of a..b.
C18_Familia(tabla, a, b) ==
    \A x \in DOMAIN tabla : C18_Medio(tabla[x], a, b)

\* Every entry of the table is the exact midpoint of a..b.
C18_FamiliaExacta(tabla, a, b) ==
    \A x \in DOMAIN tabla : 2 * tabla[x] = a + b

\* The families with a declared range other than demand.
C18_Rangos ==
    /\ C18_Familia(PA, PROD_MIN, PROD_MAX)
    /\ C18_Familia(SP_rh, PRICE_H_MIN, PRICE_H_MAX)
    /\ C18_Familia(SP_rk, PRICE_K_MIN, PRICE_K_MAX)
    /\ C18_Familia(OC, OC_MIN, OC_MAX)
    /\ \A tabla \in {PC_ir, PC_jr} : C18_Familia(tabla, PC_MIN, PC_MAX)
    /\ C18_Familia(IC_r, IC_MIN, IC_MAX)
    /\ C18_Familia(IC_h, IC_MIN, IC_MAX)
    /\ C18_Familia(IC_k, IC_MIN, IC_MAX)
    /\ C18_Familia(WC_r, WC_MIN, WC_MAX)
    /\ C18_Familia(WC_h, WC_MIN, WC_MAX)
    /\ C18_Familia(WC_k, WC_MIN, WC_MAX)
    /\ \A tabla \in {XC_ir, XC_jr} : C18_Familia(tabla, XC_MIN, XC_MAX)
    /\ C18_Familia(XC_jh, XC_MIN, XC_MAX)
    /\ C18_Familia(XC_jk, XC_MIN, XC_MAX)
    /\ \A tabla \in {XC_rh, XC_rk, XC_rr, XC_ru} :
         C18_Familia(tabla, XC_MIN, XC_MAX)
    /\ C18_Familia(XC_hu, XC_MIN, XC_MAX)
    /\ C18_Familia(XC_ku, XC_MIN, XC_MAX)
    /\ C18_Familia(CAP_BM, CAP_BM_MIN, CAP_BM_MAX)
    /\ C18_Familia(CAP_LBDC, CAP_LBDC_MIN, CAP_LBDC_MAX)
    /\ C18_FamiliaExacta(EP, EP_MIN, EP_MAX)
    /\ C18_FamiliaExacta(EI_r, EI_MIN, EI_MAX)
    /\ C18_FamiliaExacta(EI_h, EI_MIN, EI_MAX)
    /\ C18_FamiliaExacta(EI_k, EI_MIN, EI_MAX)
    /\ \A tabla \in {EX_ir, EX_jr} : C18_FamiliaExacta(tabla, EX_MIN, EX_MAX)
    /\ C18_FamiliaExacta(EX_jh, EX_MIN, EX_MAX)
    /\ C18_FamiliaExacta(EX_jk, EX_MIN, EX_MAX)
    /\ \A tabla \in {EX_rh, EX_rk, EX_rr} :
         C18_FamiliaExacta(tabla, EX_MIN, EX_MAX)

\* The built list carries the capacity  PR <= n  for every (t, p, r).
C18_TopeProduccion(n) ==
    \E netas \in {Netas} :
      \A t \in T, p \in P, r \in R :
        Veces(netas, Relacion({PR(t, p, r)}, "<=", {}, n)) = 1

\* The built list carries the hospital and clinic balances with demand n.
C18_DemandaEnBalances(n) ==
    \E netas \in {Netas} :
      /\ \A t \in T, p \in P, h \in H :
           Veces(netas, Relacion(C2_EntradasH(t, p, h), "==",
                                 C2_SalidasH(t, p, h), n)) = 1
      /\ \A t \in T, p \in P, k \in K :
           Veces(netas, Relacion(C2_EntradasK(t, p, k), "==",
                                 C2_SalidasK(t, p, k), n)) = 1

C19_Referidas ==
    UNION {DOMAIN restricciones[n].lhs.c \cup DOMAIN restricciones[n].rhs.c :
             n \in 1..Len(restricciones)}
    \cup (IF objetivo = <<>> THEN {}
          ELSE UNION {DOMAIN objetivo.expr[n].criterio.num.c :
                        n \in 1..Len(objetivo.expr)})

\* C19: every variable a constraint or the objective refers to is a declared
\* variable with its period in T, so the stock of period t - 1 is read only
\* for t > 1 and the stock of period t - ALPHA only for t > ALPHA; and every
\* cross-transfer referred to is between two different banks, for which
\* EX_rr and XC_rr have an entry.
C19_IndicesDeclarados ==
    /\ C19_Referidas \subseteq DOMAIN registro
    /\ \A v \in C19_Referidas :
         /\ v[2][1] \in T
         /\ v[1] = "XD_rr" =>
              /\ v[2][3] # v[2][4]
              /\ v[2] \in DOMAIN EX_rr
              /\ v[2] \in DOMAIN XC_rr
    /\ \A n \in 1..Len(restricciones) :
         \A t \in T, p \in P :
           /\ \A r \in R :
                /\ WO_r(t, p, r) \in DOMAIN restricciones[n].lhs.c
                /\ restricciones[n].rel = "<="
                => t > ALPHA /\ DOMAIN restricciones[n].rhs.c
                                  = {IR(t - ALPHA, p, r)}
           /\ \A h \in H :
                /\ WO_h(t, p, h) \in DOMAIN restricciones[n].lhs.c
                /\ restricciones[n].rel = "<="
                => t > ALPHA /\ DOMAIN restricciones[n].rhs.c
                                  = {IH(t - ALPHA, p, h)}
           /\ \A k \in K :
                /\ WO_k(t, p, k) \in DOMAIN restricciones[n].lhs.c
                /\ restricciones[n].rel = "<="
                => t > ALPHA /\ DOMAIN restricciones[n].rhs.c
                                  = {IK(t - ALPHA, p, k)}

\* The objective is attached to the built model; the shelf-life relation of
\* period ALPHA + 1 reads the stock of period 1, and the cap and the
\* transport cost read the tables of a transfer between two banks.
C19_Witness ==
    /\ pc = "resolver"
    /\ ALPHA = 1
    /\ objetivo # <<>>
    /\ XD_rr(1, 1, 1, 2) \in C19_Referidas
    /\ \E n \in 1..Len(restricciones) :
         /\ restricciones[n].rel = "<="
         /\ DOMAIN restricciones[n].lhs.c = {WO_r(ALPHA + 1, 1, 1)}
         /\ DOMAIN restricciones[n].rhs.c = {IR(1, 1, 1)}

(* ------------------------------- C20 ----------------------------------- *)
\* The families of the variables of period t that the balance of bank r for
\* (t, p), the equality of the list that holds PR[t,p,r], carries with
\* coefficient s in  lhs - rhs:  s = 1 on the inflow side, s = -1 on the
\* outflow side.  The stock carried in and the stock kept are not flows.
C20_Clases(netas, t, p, r, s) ==
    LET n == CHOOSE m \in 1..Len(netas) :
                 netas[m].rel = "==" /\ PR(t, p, r) \in DOMAIN netas[m].c
    IN  {v[1] : v \in {x \in DOMAIN netas[n].c : netas[n].c[x] = s}} \ {"IR"}

\* The balance of every bank has production, cross-transfers in and nIn
\* further kinds of flow on its inflow side, and cross-transfers out, flows
\* to waste centers, the discard and nOut further kinds on its outflow side.
C20_Forma(nIn, nOut) ==
    \E netas \in {Netas} : \A t \in T, p \in P, r \in R :
      LET entra == C20_Clases(netas, t, p, r, 1)
          sale == C20_Clases(netas, t, p, r, -1)
      IN  /\ {"PR", "XD_rr"} \subseteq entra
          /\ Cardinality(entra \ {"PR", "XD_rr"}) = nIn
          /\ {"XD_rr", "XD_ru", "WO_r"} \subseteq sale
          /\ Cardinality(sale \ {"XD_rr", "XD_ru", "WO_r"}) = nOut

\* C20 as stated: the balance of a regional bank has production, three
\* kinds of inbound flow and cross-transfers in on its inflow side, and three
\* kinds of outbound flow, cross-transfers out, waste-out and discard on its
\* outflow side.
C20_TresClases == Construido => C20_Forma(3, 3)

\* C20, amended: the inflow side is production, two kinds of inbound flow
\* (from mobile units and from local centers) and cross-transfers in; the
\* outflow side is two kinds of outbound flow (to hospitals and to clinics),
\* cross-transfers out, waste-out and discard.
C20_DosClases ==
    Construido =>
      /\ C20_Forma(2, 2)
      /\ \A t \in T, p \in P, r \in R :
           /\ C20_Clases(Netas, t, p, r, 1)
                = {"PR", "XD_ir", "XD_jr", "XD_rr"}
           /\ C20_Clases(Netas, t, p, r, -1)
                = {"XD_rh", "XD_rk", "XD_rr", "XD_ru", "WO_r"}

\* The list is complete and the balance of the last bank in the last period
\* receives from mobile units and sends to clinics.
C20_Witness ==
    /\ pc = "objetivo"
    /\ "XD_ir" \in C20_Clases(Netas, NT, NP, NR, 1)
    /\ "XD_rk" \in C20_Clases(Netas, NT, NP, NR, -1)

(* ------------------------------- C21 ----------------------------------- *)
\* The value of a money expression at an assignment, in 1/Den, summed family
\* by family of variables.
C21_Valor(e, val) ==
    BigPlus(Big(e.k * Den),
        SumBig([n \in {v[1] : v \in DOMAIN e.c} |->
            SumBig([v \in {x \in DOMAIN e.c : x[1] = n} |->
                       BigTimes(Big(e.c[v]), val[v])])]))

\* C21: after an optimal solve the reported profit and the reported total
\* emissions are the profit and the emissions criteria of the attached
\* objective evaluated at the loaded values, the reported service rates are
\* 100 * (solved deliveries to hospitals, to clinics) / (total demand of the
\* tables), and the step that computes the report changes nothing of the
\* model nor of the loaded values.
C21_InformeFiel ==
    /\ []((pc = "fin" /\ Optimo) =>
            /\ informe.beneficio_total
                 = C21_Valor(objetivo.expr[1].criterio.num, valores)
            /\ informe.emision_total
                 = Eval(objetivo.expr[3].criterio.num, valores)
            /\ informe.TSH = [num |-> 100 * Total(C12_EntregasH),
                              den |-> C12_DemandaH * Den]
            /\ informe.TSK = [num |-> 100 * Total(C12_EntregasK),
                              den |-> C12_DemandaK * Den])
    /\ [][informe' # informe =>
            UNCHANGED <<registro, restricciones, objetivo, valores, refs,
                        demanda, terminacion, llamadas>>]_vars

\* The report of an optimal solve in which the banks transfer to each other
\* and hospitals and clinics are served.
C21_Witness ==
    /\ pc = "fin"
    /\ Optimo
    /\ informe.emision_total > 0
    /\ informe.beneficio_total.hi > 0
    /\ informe.TSH.num > 0
    /\ informe.TSK.num > 0
    /\ \E t \in T, p \in P : valores[XD_rr(t, p, 1, 2)] > 0

(* ------------------------------- C22 ----------------------------------- *)
\* What a hospital or a clinic has received, and what it has consumed, over
\* the periods 1..t under an assignment, in 1/Den.
C22_RecibidoH(val, t, p, h) ==
    SumN([s \in 1..t |-> SumN([v \in C5_SuministroH(s, p, h) |-> val[v]])])

C22_RecibidoK(val, t, p, k) ==
    SumN([s \in 1..t |-> SumN([v \in C5_SuministroK(s, p, k) |-> val[v]])])

C22_DemandaH(t, p, h) == Den * SumN([s \in 1..t |-> DM_h[<<s, p, h>>]])

C22_DemandaK(t, p, k) == Den * SumN([s \in 1..t |-> DM_k[<<s, p, k>>]])

\* The bounds of the claim on an assignment: every node has received its
\* demand of 1..t, and holds at most (multiplier - 1) times that demand.
C22_Cotas(val) ==
    \A t \in T, p \in P :
      /\ \A h \in H :
           /\ C22_RecibidoH(val, t, p, h) >= C22_DemandaH(t, p, h)
           /\ 10 * val[IH(t, p, h)] <= 1 * C22_DemandaH(t, p, h)
      /\ \A k \in K :
           /\ C22_RecibidoK(val, t, p, k) >= C22_DemandaK(t, p, k)
           /\ 10 * val[IK(t, p, k)] <= 6 * C22_DemandaK(t, p, k)

\* The relations of the built model accept val.
C22_Aceptado(val) == Factible(registro, restricciones, val)

\* C22: in every assignment returned as optimal every hospital and clinic
\* has received, over the periods 1..t, at least its demand of 1..t, and its
\* stock at the end of t is at most (multiplier - 1) * demand of 1..t with
\* the multipliers 1.1 and 1.6.  The built model accepts no assignment that
\* breaks these bounds: not the plan with a delivery lowered and another
\* value moved (there is no shortage variable to absorb the difference), and
\* not the plan in which a local center over-supplies a node in the first
\* period by d and the node keeps d in stock, then keeps it, sends it to a
\* waste center or discards it in the second period.
C22_DemandaDura ==
    /\ Optimo => C22_Cotas(valores)
    /\ pc = "resolver" =>
         \E base \in {Semilla(registro)} :
           /\ \A v \in C12_EntregasH \cup C12_EntregasK, w \in DOMAIN registro :
                \A d1 \in {-1, -Den}, d2 \in Deltas :
                  LET val == Candidato(base, v, d1, w, IF w = v THEN 0 ELSE d2)
                  IN  C22_Aceptado(val) => C22_Cotas(val)
           /\ \A p \in P, j \in J, h \in H, d \in 1..(2 * Den) :
                \A x \in {IH(2, p, h), WO_h(2, p, h)}
                         \cup {XD_hu(2, p, h, u) : u \in U} :
                  LET val == Candidato(Candidato(base, XD_jh(1, p, j, h), d,
                                                 IH(1, p, h), d), x, d, x, 0)
                  IN  C22_Aceptado(val) => C22_Cotas(val)
           /\ \A p \in P, j \in J, k \in K, d \in 1..(DEMAND_ADJUSTED * Den) :
                \A x \in {IK(2, p, k), WO_k(2, p, k)}
                         \cup {XD_ku(2, p, k, u) : u \in U} :
                  LET val == Candidato(Candidato(base, XD_jk(1, p, j, k), d,
                                                 IK(1, p, k), d), x, d, x, 0)
                  IN  C22_Aceptado(val) => C22_Cotas(val)

\* A returned assignment in which a hospital has received more than its
\* demand and holds the difference in stock at the end of the horizon.
C22_Witness ==
    /\ Optimo
    /\ \E p \in P, h \in H :
         /\ valores[IH(NT, p, h)] > 0
         /\ C22_RecibidoH(valores, NT, p, h) > C22_DemandaH(NT, p, h)
         /\ C22_RecibidoH(valores, 1, p, h) = C22_DemandaH(1, p, h)

(* ------------------------------- C23 ----------------------------------- *)
\* The activation variables.
C23_Activacion(v) == v[1] \in {"y_i", "y_j", "y_r"}

C24_Residuo(v) == v[1] \in {"XD_ru", "XD_hu", "XD_ku"}

C24_Origen(v) ==
    CASE v[1] = "XD_ru" -> IR(v[2][1], v[2][2], v[2][3])
      [] v[1] = "XD_hu" -> IH(v[2][1], v[2][2], v[2][3])
      [] v[1] = "XD_ku" -> IK(v[2][1], v[2][2], v[2][3])

\* C24: every flow to a waste center is referred to by exactly one relation
\* of the list, the balance equality of its origin node for its period and
\* product, on the outflow side with coefficient 1; no shelf-life, capacity,
\* cap or supply relation refers to it; in the objective it weighs in the
\* transport cost of the profit criterion and in neither the emissions nor
\* the service criterion.
C24_SoloBalanceYCosto ==
    /\ Construido =>
         \E netas \in {Netas} :
           \A v \in {x \in DOMAIN registro : C24_Residuo(x)} :
             \E n \in 1..Len(netas) :
               /\ netas[n].rel = "=="
               /\ v \in DOMAIN netas[n].c /\ netas[n].c[v] = -1
               /\ C24_Origen(v) \in DOMAIN netas[n].c
               /\ netas[n].c[C24_Origen(v)] = -1
               /\ \A m \in 1..Len(netas) : v \in DOMAIN netas[m].c => m = n
    /\ objetivo # <<>> =>
         \A v \in {x \in DOMAIN registro : C24_Residuo(x)} :
           /\ Coef(objetivo.expr[1].criterio.num, v) < 0
           /\ Coef(objetivo.expr[1].criterio.num, v) % (IDR16 \div KM) = 0
           /\ Coef(objetivo.expr[2].criterio.num, v) = 0
           /\ Coef(objetivo.expr[3].criterio.num, v) = 0

\* A returned assignment in which, in a period after ALPHA, a hospital sends
\* to a waste center more than the stock it held ALPHA periods before, while
\* its discard is within that stock.
C24_Witness ==
    /\ Optimo
    /\ \E t \in T, p \in P, h \in H, u \in U :
         /\ t > ALPHA
         /\ valores[XD_hu(t, p, h, u)] > valores[IH(t - ALPHA, p, h)]
         /\ valores[WO_h(t, p, h)] <= valores[IH(t - ALPHA, p, h)]

(* ================= src/main.py: the transport model ==================== *)
\* main.py is a second script: a transport problem from three vineyards to
\* two ports, built on a ConcreteModel and handed to glpk.  The state
\* variables are reused: registro is modelo.x, restricciones holds the two
\* ConstraintLists, objetivo is modelo.costoTransporte, valores the values
\* the solver loads (in 1/Den boxes) and informe what the script prints.

\* ofertas: boxes each vineyard can supply.
ofertas == ("Maipo" :> 240) @@ ("Casablanca" :> 360) @@ ("Colchagua" :> 500)

\* demandas: boxes each port asks for (the key of the first port is written
\* without its accent).
demandas == ("Valparaiso" :> 475) @@ ("San Antonio" :> 510)

\* A tariff table in which one route is free of charge.
costos_gratis ==
    (<<"Maipo", "Valparaiso">> :> 22000) @@ (<<"Maipo", "San Antonio">> :> 26000) @@
    (<<"Casablanca", "Valparaiso">> :> 18000) @@ (<<"Casablanca", "San Antonio">> :> 23000) @@
    (<<"Colchagua", "Valparaiso">> :> 0) @@ (<<"Colchagua", "San Antonio">> :> 28000)

\* costos: cost per box on each route (vineyard, port).
costos ==
    (<<"Maipo", "Valparaiso">> :> 22000) @@ (<<"Maipo", "San Antonio">> :> 26000) @@
    (<<"Casablanca", "Valparaiso">> :> 18000) @@ (<<"Casablanca", "San Antonio">> :> 23000) @@
    (<<"Colchagua", "Valparaiso">> :> 30000) @@ (<<"Colchagua", "San Antonio">> :> 28000)

\* VINEDOS = list(ofertas.keys()), PUERTOS = list(demandas.keys()): the keys
\* in insertion order.
VINEDOS == <<"Maipo", "Casablanca", "Colchagua">>

PUERTOS == <<"Valparaiso", "San Antonio">>

\* modelo.x[v, p]
x(v, p) == <<"x", <<v, p>>>>

\* sum(costos[v, p] * modelo.x[v, p] for v in VINEDOS for p in PUERTOS),
\* sense=minimize
costoTransporte ==
    [sense |-> "minimize",
     expr  |-> Sum([r \in DOMAIN costos |-> Term(costos[r], x(r[1], r[2]))])]

\* sum(modelo.x[v, p] for p in PUERTOS) <= ofertas[v]
restriccionVinedo(v) ==
    Rel(Sum([p \in DOMAIN demandas |-> Term(1, x(v, p))]), "<=", Const(ofertas[v]))

\* sum(modelo.x[v, p] for v in VINEDOS) >= demandas[p]
restriccionPuerto(p) ==
    Rel(Sum([v \in DOMAIN ofertas |-> Term(1, x(v, p))]), ">=", Const(demandas[p]))

\* ---- glpk on the transport model ----
\* The rows the solver receives: both ConstraintLists.
Filas == restricciones.restriccionVinedo \o restricciones.restriccionPuerto

\* Change of a linear expression per unit step along direction d.
Pendiente(e, d) == SumN([v \in DOMAIN e.c |-> e.c[v] * d[v]])

\* Slack of a row at val (>= 0 when the row holds), in 1/Den.
Holgura(f, val) ==
    IF f.rel = "<=" THEN Eval(f.rhs, val) - Eval(f.lhs, val)
    ELSE Eval(f.lhs, val) - Eval(f.rhs, val)

\* Slack a row loses per unit step along d.
Tasa(f, d) ==
    IF f.rel = "<=" THEN Pendiente(f.lhs, d) - Pendiente(f.rhs, d)
    ELSE Pendiente(f.rhs, d) - Pendiente(f.lhs, d)

\* Ratio test: the steps at which a bound or a row becomes tight along d.
Limites(val, d) ==
    {val[v] : v \in {w \in DOMAIN d : d[w] < 0}}
    \cup {Holgura(Filas[n], val) \div Tasa(Filas[n], d) :
            n \in {m \in 1..Len(Filas) : Tasa(Filas[m], d) > 0}}

Minimo(S) == CHOOSE m \in S : \A n \in S : m <= n

\* Elementary moves: one or two shipments change, or four change along a
\* cycle that leaves every row's left-hand side as it was.
Direcciones ==
    {d \in [DOMAIN registro -> {-1, 0, 1}] :
        LET S == {v \in DOMAIN d : d[v] # 0}
        IN  \/ Cardinality(S) <= 2
            \/ /\ Cardinality(S) = 4
               /\ \A n \in 1..Len(Filas) : Pendiente(Filas[n].lhs, d) = 0}

Mover(val, d, paso) == [v \in DOMAIN val |-> val[v] + paso * d[v]]

InitTransporte ==
    /\ pc = "x"
    /\ ALPHA = 1
    /\ refs = <<>>
    /\ demanda = <<>>
    /\ registro = <<>>
    /\ restricciones = [restriccionVinedo |-> <<>>, restriccionPuerto |-> <<>>]
    /\ objetivo = <<>>
    /\ llamadas = 0
    /\ terminacion = "sin definir"
    /\ valores = <<>>
    /\ informe = <<>>

\* modelo.x = Var(VINEDOS, PUERTOS, domain=NonNegativeReals)
DeclararX ==
    /\ pc = "x"
    /\ registro' = [h \in {x(v, p) : v \in DOMAIN ofertas, p \in DOMAIN demandas}
                        |-> "NonNegativeReals"]
    /\ pc' = "costoTransporte"
    /\ UNCHANGED <<ALPHA, refs, demanda, restricciones, objetivo, llamadas,
                   terminacion, valores, informe>>

\* modelo.costoTransporte = Objective(...)
AdjuntarCosto ==
    /\ pc = "costoTransporte"
    /\ objetivo' = costoTransporte
    /\ pc' = "restriccionVinedo"
    /\ UNCHANGED <<ALPHA, refs, demanda, registro, restricciones, llamadas,
                   terminacion, valores, informe>>

\* for v in VINEDOS: modelo.restriccionVinedo.add(...)
AgregarVinedo ==
    /\ pc = "restriccionVinedo"
    /\ LET n == Len(restricciones.restriccionVinedo)
       IN  IF n < Len(VINEDOS)
           THEN /\ restricciones' =
                      [restricciones EXCEPT !.restriccionVinedo =
                          Append(@, restriccionVinedo(VINEDOS[n + 1]))]
                /\ pc' = pc
           ELSE /\ pc' = "restriccionPuerto"
                /\ UNCHANGED restricciones
    /\ UNCHANGED <<ALPHA, refs, demanda, registro, objetivo, llamadas,
                   terminacion, valores, informe>>

\* for p in PUERTOS: modelo.restriccionPuerto.add(...)
AgregarPuerto ==
    /\ pc = "restriccionPuerto"
    /\ LET n == Len(restricciones.restriccionPuerto)
       IN  IF n < Len(PUERTOS)
           THEN /\ restricciones' =
                      [restricciones EXCEPT !.restriccionPuerto =
                          Append(@, restriccionPuerto(PUERTOS[n + 1]))]
                /\ pc' = pc
           ELSE /\ pc' = "solve"
                /\ UNCHANGED restricciones
    /\ UNCHANGED <<ALPHA, refs, demanda, registro, objetivo, llamadas,
                   terminacion, valores, informe>>

\* SolverFactory('glpk').solve(modelo): the solver starts from no shipments.
Llamar ==
    /\ pc = "solve"
    /\ llamadas' = llamadas + 1
    /\ valores' = [v \in DOMAIN registro |-> 0]
    /\ pc' = "fase1"
    /\ UNCHANGED <<ALPHA, refs, demanda, registro, restricciones, objetivo,
                   terminacion, informe>>

\* Phase 1: load a route between a vineyard with supply left and a port
\* still short of its demand, as far as either allows.
Cargar ==
    /\ pc = "fase1"
    /\ \E v \in DOMAIN ofertas, p \in DOMAIN demandas :
          LET falta == - Holgura(restriccionPuerto(p), valores)
              resto == Holgura(restriccionVinedo(v), valores)
          IN  /\ falta > 0
              /\ resto > 0
              /\ valores' = [valores EXCEPT ![x(v, p)] = @ + Minimo({falta, resto})]
    /\ UNCHANGED <<pc, ALPHA, refs, demanda, registro, restricciones, objetivo,
                   llamadas, terminacion, informe>>

\* Phase 1 ends when nothing more can be loaded: either every row holds, or
\* the problem has no feasible point and glpk reports it.
FinFase1 ==
    /\ pc = "fase1"
    /\ ~ \E v \in DOMAIN ofertas, p \in DOMAIN demandas :
            /\ Holgura(restriccionPuerto(p), valores) < 0
            /\ Holgura(restriccionVinedo(v), valores) > 0
    /\ IF Factible(registro, Filas, valores)
       THEN pc' = "fase2" /\ UNCHANGED terminacion
       ELSE pc' = "imprimir" /\ terminacion' = "infeasible"
    /\ UNCHANGED <<ALPHA, refs, demanda, registro, restricciones, objetivo,
                   llamadas, valores, informe>>

\* Phase 2: a move that lowers the cost, taken up to the ratio-test limit.
Mejorar ==
    /\ pc = "fase2"
    /\ \E d \in Direcciones :
          /\ Pendiente(objetivo.expr, d) < 0
          /\ Limites(valores, d) # {}
          /\ Minimo(Limites(valores, d)) > 0
          /\ valores' = Mover(valores, d, Minimo(Limites(valores, d)))
    /\ UNCHANGED <<pc, ALPHA, refs, demanda, registro, restricciones, objetivo,
                   llamadas, terminacion, informe>>

\* No move lowers the cost: the solver stops and loads a point of minimal
\* cost, the one it stands on or one a cost-neutral move away.
Terminar ==
    /\ pc = "fase2"
    /\ ~ \E d \in Direcciones :
            /\ Pendiente(objetivo.expr, d) < 0
            /\ \A l \in Limites(valores, d) : l > 0
    /\ \E d \in Direcciones :
          /\ Pendiente(objetivo.expr, d) = 0
          /\ \E paso \in {0} \cup (IF Limites(valores, d) = {} THEN {}
                                   ELSE {Minimo(Limites(valores, d))}) :
                /\ paso >= 0
                /\ valores' = Mover(valores, d, paso)
    /\ terminacion' = "optimal"
    /\ pc' = "imprimir"
    /\ UNCHANGED <<ALPHA, refs, demanda, registro, restricciones, objetivo,
                   llamadas, informe>>

\* print the cost and every shipment whose value is > 0; the script does
\* not look at the termination condition.
Imprimir ==
    /\ pc = "imprimir"
    /\ informe' = [costo  |-> Eval(objetivo.expr, valores),
                   envios |-> {v \in DOMAIN valores : valores[v] > 0}]
    /\ pc' = "fin"
    /\ UNCHANGED <<ALPHA, refs, demanda, registro, restricciones, objetivo,
                   llamadas, terminacion, valores>>

SpecTransporte ==
    InitTransporte /\ [][DeclararX \/ AdjuntarCosto \/ AgregarVinedo \/ AgregarPuerto
                         \/ Llamar \/ Cargar \/ FinFase1 \/ Mejorar \/ Terminar
                         \/ Imprimir]_vars

(* ------------------------------- C25 ----------------------------------- *)
\* Both ConstraintLists of main.py are complete.
C25_Armado == pc \in {"solve", "fase1", "fase2", "imprimir", "fin"}

C25_Netas(lista) == [n \in 1..Len(lista) |-> Neta(lista[n])]

\* What the solved values ship out of a vineyard and into a port, in 1/Den.
C25_Enviado(v) == SumN([p \in DOMAIN demandas |-> valores[x(v, p)]])

C25_Recibido(p) == SumN([v \in DOMAIN ofertas |-> valores[x(v, p)]])

\* One supply row per vineyard, one demand row per port, and nothing else,
\* over non-negative shipments on every route.
C25_Filas ==
    /\ DOMAIN registro = {x(v, p) : v \in DOMAIN ofertas, p \in DOMAIN demandas}
    /\ \A h \in DOMAIN registro : registro[h] = "NonNegativeReals"
    /\ Len(restricciones.restriccionVinedo) = Cardinality(DOMAIN ofertas)
    /\ \A v \in DOMAIN ofertas :
          Veces(C25_Netas(restricciones.restriccionVinedo),
                Relacion({x(v, p) : p \in DOMAIN demandas}, "<=", {}, ofertas[v])) = 1
    /\ Len(restricciones.restriccionPuerto) = Cardinality(DOMAIN demandas)
    /\ \A p \in DOMAIN demandas :
          Veces(C25_Netas(restricciones.restriccionPuerto),
                Relacion({x(v, p) : v \in DOMAIN ofertas}, ">=", {}, demandas[p])) = 1

\* Total supply 1100 covers total demand 985, and every route has a price.
C25_Datos ==
    /\ SumN(ofertas) = 1100
    /\ SumN(demandas) = 985
    /\ SumN(ofertas) >= SumN(demandas)
    /\ \A r \in DOMAIN costos : costos[r] > 0

\* What glpk hands back: a point of every row, where each port receives its
\* demand and not a box more.
C25_Entrega ==
    /\ terminacion = "optimal"
    /\ \A h \in DOMAIN registro : valores[h] >= 0
    /\ \A p \in DOMAIN demandas : C25_Recibido(p) = Den * demandas[p]
    /\ SumN([v \in DOMAIN ofertas |-> C25_Enviado(v)]) = Den * 985
    /\ \A v \in DOMAIN ofertas : C25_Enviado(v) <= Den * ofertas[v]

\* C25: the transport model of main.py has exactly one supply row per
\* vineyard (sum over ports of x[v,p] <= ofertas[v]) and one demand row per
\* port (sum over vineyards of x[v,p] >= demandas[p]) over non-negative
\* shipments; it is feasible since total supply 1100 >= total demand 985,
\* and as every unit cost is positive the assignment the solver returns
\* gives each port exactly its demand: 985 boxes shipped in all, and no
\* vineyard ships more than its supply.
C25_TransporteExacto ==
    /\ C25_Datos
    /\ C25_Armado => C25_Filas
    /\ pc \in {"imprimir", "fin"} => C25_Entrega

\* The script has printed the plan the solver found: four routes in use,
\* every port served to the box, Colchagua with supply to spare.
C25_Witness ==
    /\ pc = "fin"
    /\ llamadas = 1
    /\ terminacion = "optimal"
    /\ informe.costo = 23040000 * Den
    /\ Cardinality(informe.envios) = 4
    /\ \A p \in DOMAIN demandas : C25_Recibido(p) = Den * demandas[p]
    /\ C25_Enviado("Colchagua") < Den * ofertas["Colchagua"]

=============================================================================
